---------------------------- MODULE Spec2Model ----------------------------
(***************************************************************************)
(* A model of the cryptographic core of fathens/mpc-cli: the ModInt        *)
(* engine, the Paillier cryptosystem and its proof, safe-prime and key     *)
(* generation, and the DLN / ProofMod / ProofFac / ProofBob proofs.        *)
(*                                                                         *)
(* Arbitrary-precision integers are modelled by TLA+ integers; every       *)
(* parameter set is small enough that no intermediate product leaves the   *)
(* 32-bit range of the model checker.  Each component has one variable,    *)
(* a record holding the inputs, the sampled values and the results of the  *)
(* calls made so far, and one specification.                               *)
(***************************************************************************)
EXTENDS Integers, Sequences, FiniteSets, TLC

VARIABLES modint, paillier, safeprime, keygen, modproof, facproof, bobproof, dlnproof, paiproof, random, secrets, dlnwire, proofwire, verifyany, ntildei, hashing, ecpoint, fanout

vars == <<modint, paillier, safeprime, keygen, modproof, facproof, bobproof, dlnproof, paiproof, random, secrets, dlnwire, proofwire, verifyany, ntildei, hashing, ecpoint, fanout>>

(***************************************************************************)
(* Results: Rust's Result<BigUint, Error>.                                 *)
(***************************************************************************)
Ok(v) == [ok |-> TRUE, val |-> v, err |-> "none"]

Err(e) == [ok |-> FALSE, val |-> 0, err |-> e]

(***************************************************************************)
(* Big-integer primitives of num-bigint / num-integer.                     *)
(***************************************************************************)
RECURSIVE gcd(_, _)
gcd(a, b) == IF b = 0 THEN a ELSE gcd(b, a % b)

RECURSIVE bits(_)
bits(x) == IF x = 0 THEN 0 ELSE 1 + bits(x \div 2)

RECURSIVE pow2(_)
pow2(i) == IF i = 0 THEN 1 ELSE 2 * pow2(i - 1)

bit(x, i) == (x \div pow2(i)) % 2 = 1

set_bit(x, i, v) ==
    IF v THEN (IF bit(x, i) THEN x ELSE x + pow2(i))
         ELSE (IF bit(x, i) THEN x - pow2(i) ELSE x)

RECURSIVE trailing_zeros(_)
trailing_zeros(x) == IF x % 2 = 1 THEN 0 ELSE 1 + trailing_zeros(x \div 2)

RECURSIVE sqrt_from(_, _)
sqrt_from(x, r) == IF (r + 1) * (r + 1) > x THEN r ELSE sqrt_from(x, r + 1)

sqrt(x) == sqrt_from(x, 0)

RECURSIVE pow(_, _)
pow(x, e) == IF e = 0 THEN 1 ELSE x * pow(x, e - 1)

(* BigUint::modpow: binary exponentiation, the result reduced below m.     *)
RECURSIVE modpow(_, _, _)
modpow(x, e, m) ==
    IF m = 1 THEN 0
    ELSE IF e = 0 THEN 1
    ELSE LET h == modpow(x, e \div 2, m)
             s == (h * h) % m
         IN  IF e % 2 = 1 THEN (s * (x % m)) % m ELSE s

(***************************************************************************)
(* num-modular's operations on BigUint, as ModInt calls them.              *)
(***************************************************************************)
addm(x, y, m) == (x + y) % m

subm(x, y, m) ==
    LET lhs == x % m
        rhs == y % m
    IN  IF lhs >= rhs THEN lhs - rhs ELSE m - (rhs - lhs)

mulm(x, y, m) == ((x % m) * (y % m)) % m

powm(x, y, m) == modpow(x, y, m)

(* invm: the extended Euclid loop; None when gcd(x, m) > 1.                *)
RECURSIVE invm_loop(_, _, _, _, _)
invm_loop(last_r, r, last_t, t, m) ==
    IF r > 0
    THEN LET quo == last_r \div r
             rem == last_r % r
             new_t == subm(last_t, mulm(quo, t, m), m)
         IN  invm_loop(r, rem, t, new_t, m)
    ELSE IF last_r > 1 THEN [some |-> FALSE, val |-> 0]
         ELSE [some |-> TRUE, val |-> last_t]

invm(x, m) == invm_loop(m, x % m, 0, 1, m)

(***************************************************************************)
(* common::mod_int::ModInt                                                 *)
(***************************************************************************)
ModInt_add(m, x, y) == addm(x, y, m)

ModInt_sub_saturating(m, x, y) ==
    IF (x % m) >= (y % m) THEN (x % m) - (y % m) ELSE 0

ModInt_sub(m, x, y) == subm(x, y, m)

ModInt_mul(m, x, y) == mulm(x, y, m)

ModInt_pow(m, x, y) == powm(x, y, m)

ModInt_mod_inverse_unchecked(m, x) == Ok(invm(x, m).val)

ModInt_mod_inverse(m, x) ==
    LET r == invm(x, m)
    IN  IF r.some THEN Ok(r.val) ELSE Err("division_by_zero")

ModInt_div_unreduced(m, x, y) ==
    IF y = 0 THEN Err("division_by_zero")
    ELSE Ok(x \div y)

ModInt_div(m, x, y) ==
    IF y = 0 THEN Err("division_by_zero")
    ELSE Ok(addm(x \div y, 0, m))

ModInt_powi_abs(m, x, y) == Ok(ModInt_pow(m, x, IF y < 0 THEN -y ELSE y))

ModInt_powi(m, x, y) ==
    IF y < 0
    THEN ModInt_mod_inverse(m, ModInt_pow(m, x, -y))
    ELSE Ok(ModInt_pow(m, x, y))

(***************************************************************************)
(* ModInt as a state machine: the operands are drawn in Init, one          *)
(* operation is applied.                                                   *)
(***************************************************************************)
MaxModulus == 7

MaxOperand == 9

Idle == [pc |-> "idle"]

InitModInt ==
    /\ modint \in [m : 1..MaxModulus, x : 0..MaxOperand, y : 0..MaxOperand,
                   op : {"none"}, res : {0}, sy : {0}, rr : {Ok(0)}]
    /\ paillier = Idle
    /\ safeprime = Idle
    /\ keygen = Idle
    /\ modproof = Idle
    /\ facproof = Idle
    /\ bobproof = Idle
    /\ dlnproof = Idle
    /\ paiproof = Idle
    /\ random = Idle
    /\ secrets = Idle
    /\ dlnwire = Idle
    /\ proofwire = Idle
    /\ verifyany = Idle
    /\ ntildei = Idle
    /\ hashing = Idle
    /\ ecpoint = Idle
    /\ fanout = Idle

ModIntApply(name, r) ==
    /\ modint.op = "none"
    /\ modint' = [modint EXCEPT !.op = name, !.res = r]
    /\ UNCHANGED <<paillier, safeprime, keygen, modproof, facproof, bobproof, dlnproof, paiproof, random, secrets, dlnwire, proofwire, verifyany, ntildei, hashing, ecpoint, fanout>>

ModIntAdd == ModIntApply("add", ModInt_add(modint.m, modint.x, modint.y))

ModIntSub == ModIntApply("sub", ModInt_sub(modint.m, modint.x, modint.y))

ModIntMul == ModIntApply("mul", ModInt_mul(modint.m, modint.x, modint.y))

ModIntPow == ModIntApply("pow", ModInt_pow(modint.m, modint.x, modint.y))

(* The operations that return a Result; powi takes y with either sign.     *)
ModIntApplyResult(name, sy, r) ==
    /\ modint.op = "none"
    /\ modint' = [modint EXCEPT !.op = name, !.sy = sy, !.rr = r]
    /\ UNCHANGED <<paillier, safeprime, keygen, modproof, facproof, bobproof, dlnproof, paiproof, random, secrets, dlnwire, proofwire, verifyany, ntildei, hashing, ecpoint, fanout>>

ModIntDiv == ModIntApplyResult("div", modint.y, ModInt_div(modint.m, modint.x, modint.y))

ModIntPowi ==
    \E sy \in {modint.y, -modint.y} :
       ModIntApplyResult("powi", sy, ModInt_powi(modint.m, modint.x, sy))

ModIntModInverse ==
    ModIntApplyResult("mod_inverse", 0, ModInt_mod_inverse(modint.m, modint.x))

NextModInt ==
    \/ ModIntAdd \/ ModIntSub \/ ModIntMul \/ ModIntPow
    \/ ModIntDiv \/ ModIntPowi \/ ModIntModInverse

SpecModInt == InitModInt /\ [][NextModInt]_vars

(* The mathematical value x^y mod m, by y successive multiplications.      *)
RECURSIVE PowModRef(_, _, _)
PowModRef(x, y, m) == IF y = 0 THEN 1 % m ELSE (PowModRef(x, y - 1, m) * x) % m

(* C10: for every modulus m > 0 and all naturals x, y (x, y >= m included) *)
(* add, sub, mul and pow return (x+y) mod m, (x-y) mod m, (x*y) mod m and  *)
(* x^y mod m, the canonical representative in [0, m).                      *)
C10_ModIntCanonical ==
    /\ modint.op = "add" => modint.res = (modint.x + modint.y) % modint.m
    /\ modint.op = "sub" => modint.res = (modint.x - modint.y) % modint.m
    /\ modint.op = "mul" => modint.res = (modint.x * modint.y) % modint.m
    /\ modint.op = "pow" => modint.res = PowModRef(modint.x, modint.y, modint.m)
    /\ modint.op # "none" => modint.res \in 0..(modint.m - 1)

C10_Witness ==
    /\ modint.op = "sub"
    /\ modint.x >= modint.m
    /\ (modint.x % modint.m) < (modint.y % modint.m)
    /\ modint.res = modint.m - 1

(* a and m have no common divisor above 1.                                 *)
CoprimeRef(a, m) == \A d \in 2..m : ~(a % d = 0 /\ m % d = 0)

(* C11 as stated: for every modulus m > 0 and every x, mod_inverse(x)      *)
(* returns Ok(r) if and only if gcd(x, m) = 1, and then mul(x, r) = 1;     *)
(* otherwise it returns the division-by-zero error.                        *)
C11_ModInverse ==
    modint.op = "mod_inverse" =>
        /\ modint.rr.ok <=> CoprimeRef(modint.x, modint.m)
        /\ modint.rr.ok => ModInt_mul(modint.m, modint.x, modint.rr.val) = 1
        /\ ~modint.rr.ok => modint.rr = Err("division_by_zero")

(* C11, amended: mod_inverse(x) returns Ok(r) if and only if               *)
(* gcd(x, m) = 1, and then mul(x, r) = 1 mod m, which is 1 for m > 1 and   *)
(* 0 for m = 1 (where r = 0); otherwise it returns the division-by-zero    *)
(* error.                                                                  *)
C11_ModInverseResidue ==
    modint.op = "mod_inverse" =>
        /\ modint.rr.ok <=> CoprimeRef(modint.x, modint.m)
        /\ modint.rr.ok =>
              /\ ModInt_mul(modint.m, modint.x, modint.rr.val) = 1 % modint.m
              /\ modint.rr.val \in 0..(modint.m - 1)
              /\ modint.m = 1 => modint.rr.val = 0
        /\ ~modint.rr.ok => modint.rr = Err("division_by_zero")

C11_Witness ==
    /\ modint.op = "mod_inverse"
    /\ modint.rr.ok
    /\ modint.x > modint.m
    /\ modint.rr.val > 1
    /\ modint.rr.val # modint.x % modint.m

C11_WitnessError ==
    /\ modint.op = "mod_inverse"
    /\ ~modint.rr.ok
    /\ modint.x % modint.m # 0

(* C12 as stated: when y >= 0, powi(x, y) = Ok(pow(x, y)), so that         *)
(* powi(x, 0) = 1; when y < 0, powi(x, y) = mod_inverse(pow(x, |y|)): Ok(r)*)
(* with r * x^|y| = 1 (mod m) when the inverse exists and the              *)
(* division-by-zero error when it does not.                                *)
C12_Powi ==
    modint.op = "powi" =>
        LET m == modint.m
            a == IF modint.sy < 0 THEN -modint.sy ELSE modint.sy
            xa == PowModRef(modint.x, a, m)
        IN  /\ modint.sy >= 0 => modint.rr = Ok(xa)
            /\ modint.sy = 0 => modint.rr = Ok(1)
            /\ modint.sy < 0 =>
                  /\ modint.rr = ModInt_mod_inverse(m, xa)
                  /\ modint.rr.ok <=> CoprimeRef(xa, m)
                  /\ modint.rr.ok => (modint.rr.val * xa) % m = 1 % m
                  /\ ~modint.rr.ok => modint.rr = Err("division_by_zero")

(* C12, amended: when y >= 0, powi(x, y) = Ok(pow(x, y)), so that          *)
(* powi(x, 0) = 1 mod m (1 for m > 1, 0 for m = 1); when y < 0,            *)
(* powi(x, y) = mod_inverse(pow(x, |y|)): Ok(r) with r * x^|y| = 1 (mod m) *)
(* when the inverse exists and the division-by-zero error when it does not.*)
C12_PowiResidue ==
    modint.op = "powi" =>
        LET m == modint.m
            a == IF modint.sy < 0 THEN -modint.sy ELSE modint.sy
            xa == PowModRef(modint.x, a, m)
        IN  /\ modint.sy >= 0 => modint.rr = Ok(xa)
            /\ modint.sy = 0 => modint.rr = Ok(1 % m)
            /\ modint.sy < 0 =>
                  /\ modint.rr = ModInt_mod_inverse(m, xa)
                  /\ modint.rr.ok <=> CoprimeRef(xa, m)
                  /\ modint.rr.ok => (modint.rr.val * xa) % m = 1 % m
                  /\ ~modint.rr.ok => modint.rr = Err("division_by_zero")

C12_Witness ==
    /\ modint.op = "powi"
    /\ modint.sy < -1
    /\ modint.rr.ok
    /\ modint.rr.val > 1
    /\ modint.x > modint.m

C12_WitnessError ==
    /\ modint.op = "powi"
    /\ modint.sy < -1
    /\ ~modint.rr.ok
    /\ modint.x % modint.m # 0

(* C13: div(x, 0) returns the division-by-zero error for every x and       *)
(* modulus; for y # 0, div(x, y) returns Ok(floor(x / y) mod m), a value   *)
(* in [0, m).                                                              *)
C13_Div ==
    modint.op = "div" =>
        /\ modint.y = 0 => modint.rr = Err("division_by_zero")
        /\ modint.y # 0 =>
              /\ modint.rr = Ok((modint.x \div modint.y) % modint.m)
              /\ modint.rr.val \in 0..(modint.m - 1)
              /\ \E k \in 0..modint.x :
                    /\ k * modint.y <= modint.x
                    /\ modint.x < (k + 1) * modint.y
                    /\ modint.rr.val = k % modint.m

C13_Witness ==
    /\ modint.op = "div"
    /\ modint.y > 1
    /\ modint.x \div modint.y >= modint.m
    /\ modint.x % modint.y # 0
    /\ modint.rr.ok
    /\ modint.rr.val > 0

C13_WitnessError ==
    /\ modint.op = "div"
    /\ modint.y = 0
    /\ modint.x > 0
    /\ ~modint.rr.ok

(***************************************************************************)
(* common::random: the values the samplers can return.                     *)
(***************************************************************************)
is_number_in_multiplicative_group(modulus, number) ==
    number # 0 /\ number < modulus /\ gcd(number, modulus) = 1

(* gen_biguint_below(ceiling): any value of [0, ceiling).                  *)
get_random_positive_int(ceiling) == 0..(ceiling - 1)

(* The loop resamples until the value is in the group, so it returns       *)
(* exactly the group's elements.                                           *)
get_random_positive_relatively_prime_int(modulus) ==
    {r \in get_random_positive_int(modulus) :
        ~(r = 0 \/ ~is_number_in_multiplicative_group(modulus, r))}

(***************************************************************************)
(* crypto::paillier: keys, encryption, decryption, homomorphic operations. *)
(***************************************************************************)
PrivateKey_new(p, q) ==
    LET n == p * q
        q_1 == q - 1
        p_1 == p - 1
        phi_n == p_1 * q_1
        lambda_n == phi_n \div gcd(p_1, q_1)
    IN  [n |-> n, p |-> p, q |-> q, phi_n |-> phi_n, lambda_n |-> lambda_n]

lcalc(sk, a) == (ModInt_pow(sk.n * sk.n, a, sk.lambda_n) - 1) \div sk.n

PrivateKey_decrypt_gcd_first(sk, c) ==
    LET n2 == sk.n * sk.n
    IN  IF gcd(c, n2) > 1 THEN Err("message_malformed")
        ELSE IF c >= n2 THEN Err("message_too_long")
        ELSE LET lc == lcalc(sk, c)
                 lg == lcalc(sk, sk.n + 1)
                 inv == ModInt_mod_inverse(sk.n, lg)
             IN  IF ~inv.ok THEN inv
                 ELSE Ok(ModInt_mul(sk.n, lc, inv.val))

PrivateKey_decrypt(sk, c) ==
    LET n2 == sk.n * sk.n
    IN  IF c >= n2 THEN Err("message_too_long")
        ELSE IF gcd(c, n2) > 1 THEN Err("message_malformed")
        ELSE LET lc == lcalc(sk, c)
                 lg == lcalc(sk, sk.n + 1)
                 inv == ModInt_mod_inverse(sk.n, lg)
             IN  IF ~inv.ok THEN inv
                 ELSE Ok(ModInt_mul(sk.n, lc, inv.val))

PublicKey_encrypt_base_n(n, m, x) ==
    IF m >= n THEN [ok |-> FALSE, err |-> "message_too_long", cypher |-> 0, randomness |-> 0]
    ELSE [ok |-> TRUE, err |-> "none", randomness |-> x,
          cypher |-> ModInt_mul(n * n, ModInt_pow(n * n, n, m), ModInt_pow(n * n, x, n))]

(* encrypt with the sampled randomness x made explicit.                    *)
PublicKey_encrypt(n, m, x) ==
    IF m >= n THEN [ok |-> FALSE, err |-> "message_too_long", cypher |-> 0, randomness |-> 0]
    ELSE LET n2 == n * n
             gm == ModInt_pow(n2, n + 1, m)
             xn == ModInt_pow(n2, x, n)
             c == ModInt_mul(n2, gm, xn)
         IN  [ok |-> TRUE, err |-> "none", cypher |-> c, randomness |-> x]

PublicKey_homo_mult(n, m, c1) ==
    LET mm == m % n
        n2 == pow(n, 2)
        cc == c1 % n2
    IN  ModInt_pow(n2, cc, mm)

PublicKey_homo_add_sum(n, c1, c2) ==
    ModInt_add(pow(n, 2), c1 % pow(n, 2), c2 % pow(n, 2))

PublicKey_homo_add(n, c1, c2) ==
    LET n2 == pow(n, 2)
    IN  ModInt_mul(n2, c1 % n2, c2 % n2)

(***************************************************************************)
(* Paillier as a state machine: a key, two encryptions, one homomorphic    *)
(* operation, one decryption.                                              *)
(***************************************************************************)
PaillierPrimes == {3, 5, 7}

MaxScalarOver == 2

PaillierKeys ==
    {PrivateKey_new(pq[1], pq[2]) : pq \in
        {x \in PaillierPrimes \X PaillierPrimes :
            x[1] > x[2] /\ gcd(x[1] * x[2], (x[1] - 1) * (x[2] - 1)) = 1}}

NoCypher == [ok |-> FALSE, err |-> "none", cypher |-> 0, randomness |-> 0]

InitPaillier ==
    /\ paillier \in [pc : {"keyed"}, sk : PaillierKeys, a : {0}, b : {0}, k : {0},
                     ea : {NoCypher}, eb : {NoCypher}, hom : {0}, dec : {Err("none")},
                     c : {0}]
    /\ modint = Idle
    /\ safeprime = Idle
    /\ keygen = Idle
    /\ modproof = Idle
    /\ facproof = Idle
    /\ bobproof = Idle
    /\ dlnproof = Idle
    /\ paiproof = Idle
    /\ random = Idle
    /\ secrets = Idle
    /\ dlnwire = Idle
    /\ proofwire = Idle
    /\ verifyany = Idle
    /\ ntildei = Idle
    /\ hashing = Idle
    /\ ecpoint = Idle
    /\ fanout = Idle

PaillierEncryptA ==
    /\ paillier.pc = "keyed"
    /\ \E m \in 0..paillier.sk.n :
       \E x \in get_random_positive_relatively_prime_int(paillier.sk.n) :
          LET e == PublicKey_encrypt(paillier.sk.n, m, x)
          IN  paillier' = [paillier EXCEPT !.pc = IF e.ok THEN "encA" ELSE "failed",
                                           !.a = m, !.ea = e]
    /\ UNCHANGED <<modint, safeprime, keygen, modproof, facproof, bobproof, dlnproof, paiproof, random, secrets, dlnwire, proofwire, verifyany, ntildei, hashing, ecpoint, fanout>>

PaillierEncryptB ==
    /\ paillier.pc = "encA"
    /\ \E m \in 0..paillier.sk.n :
       \E x \in get_random_positive_relatively_prime_int(paillier.sk.n) :
          LET e == PublicKey_encrypt(paillier.sk.n, m, x)
          IN  paillier' = [paillier EXCEPT !.pc = IF e.ok THEN "encB" ELSE "failed",
                                           !.b = m, !.eb = e]
    /\ UNCHANGED <<modint, safeprime, keygen, modproof, facproof, bobproof, dlnproof, paiproof, random, secrets, dlnwire, proofwire, verifyany, ntildei, hashing, ecpoint, fanout>>

PaillierDecryptA ==
    /\ paillier.pc = "encA"
    /\ paillier' = [paillier EXCEPT !.pc = "decA",
                       !.dec = PrivateKey_decrypt(paillier.sk, paillier.ea.cypher)]
    /\ UNCHANGED <<modint, safeprime, keygen, modproof, facproof, bobproof, dlnproof, paiproof, random, secrets, dlnwire, proofwire, verifyany, ntildei, hashing, ecpoint, fanout>>

PaillierHomoAdd ==
    /\ paillier.pc = "encB"
    /\ paillier' = [paillier EXCEPT !.pc = "added",
          !.hom = PublicKey_homo_add(paillier.sk.n, paillier.ea.cypher, paillier.eb.cypher)]
    /\ UNCHANGED <<modint, safeprime, keygen, modproof, facproof, bobproof, dlnproof, paiproof, random, secrets, dlnwire, proofwire, verifyany, ntildei, hashing, ecpoint, fanout>>

PaillierHomoMult ==
    /\ paillier.pc = "encA"
    /\ \E k \in 0..(paillier.sk.n + MaxScalarOver) :
          paillier' = [paillier EXCEPT !.pc = "multed", !.k = k,
              !.hom = PublicKey_homo_mult(paillier.sk.n, k, paillier.ea.cypher)]
    /\ UNCHANGED <<modint, safeprime, keygen, modproof, facproof, bobproof, dlnproof, paiproof, random, secrets, dlnwire, proofwire, verifyany, ntildei, hashing, ecpoint, fanout>>

PaillierDecryptHom ==
    /\ paillier.pc \in {"added", "multed"}
    /\ paillier' = [paillier EXCEPT
          !.pc = IF paillier.pc = "added" THEN "decSum" ELSE "decProd",
          !.dec = PrivateKey_decrypt(paillier.sk, paillier.hom)]
    /\ UNCHANGED <<modint, safeprime, keygen, modproof, facproof, bobproof, dlnproof, paiproof, random, secrets, dlnwire, proofwire, verifyany, ntildei, hashing, ecpoint, fanout>>

(* decrypt applied to an arbitrary value, a cypher text or not.            *)
PaillierDecryptAny ==
    /\ paillier.pc = "keyed"
    /\ \E c \in 0..(paillier.sk.n * paillier.sk.n + MaxScalarOver) :
          paillier' = [paillier EXCEPT !.pc = "decAny", !.c = c,
                          !.dec = PrivateKey_decrypt(paillier.sk, c)]
    /\ UNCHANGED <<modint, safeprime, keygen, modproof, facproof, bobproof, dlnproof, paiproof, random, secrets, dlnwire, proofwire, verifyany, ntildei, hashing, ecpoint, fanout>>

NextPaillier ==
    \/ PaillierDecryptAny
    \/ PaillierEncryptA
    \/ PaillierEncryptB
    \/ PaillierDecryptA
    \/ PaillierHomoAdd
    \/ PaillierHomoMult
    \/ PaillierDecryptHom

SpecPaillier == InitPaillier /\ [][NextPaillier]_vars

(* C1: for every key with gcd(n, phi(n)) = 1, every plaintext m < n and    *)
(* every randomness of the multiplicative group mod n,                     *)
(* decrypt(encrypt(m).cypher) = Ok(m).                                     *)
C1_DecryptEncrypt ==
    paillier.pc = "decA" => paillier.dec = Ok(paillier.a)

C1_Witness ==
    /\ paillier.pc = "decA"
    /\ paillier.a = paillier.sk.n - 1
    /\ paillier.ea.randomness > 1
    /\ paillier.dec = Ok(paillier.a)

(* C2: homo_add of two encryptions decrypts to (a + b) mod n, homo_mult of *)
(* a scalar k and an encryption decrypts to (k * a) mod n.                 *)
C2_Homomorphic ==
    /\ paillier.pc = "decSum" =>
          paillier.dec = Ok((paillier.a + paillier.b) % paillier.sk.n)
    /\ paillier.pc = "decProd" =>
          paillier.dec = Ok((paillier.k * paillier.a) % paillier.sk.n)

C2_Witness ==
    /\ paillier.pc = "decSum"
    /\ paillier.a + paillier.b > paillier.sk.n
    /\ paillier.ea.randomness # paillier.eb.randomness
    /\ paillier.dec.ok

(* encrypt(m) returned e: the message-too-long error exactly when m >= n.  *)
EncryptValidated(e, m) ==
    /\ e.ok <=> m < paillier.sk.n
    /\ ~e.ok => e.err = "message_too_long"

(* C14: encrypt(m) returns the message-too-long error exactly when m >= n; *)
(* decrypt(c) returns message-too-long when c >= n^2 and otherwise         *)
(* message-malformed when gcd(c, n^2) # 1 (the size check first), and Ok   *)
(* in all remaining cases.                                                 *)
C14_ArgumentValidation ==
    /\ paillier.pc \in {"encA", "encB", "failed", "decA", "added", "multed",
                        "decSum", "decProd"} => EncryptValidated(paillier.ea, paillier.a)
    /\ \/ paillier.pc \in {"encB", "added", "decSum"}
       \/ paillier.pc = "failed" /\ paillier.ea.ok
       => EncryptValidated(paillier.eb, paillier.b)
    /\ paillier.pc = "decAny" =>
          LET n2 == paillier.sk.n * paillier.sk.n
          IN  IF paillier.c >= n2 THEN paillier.dec = Err("message_too_long")
              ELSE IF ~CoprimeRef(paillier.c, n2)
              THEN paillier.dec = Err("message_malformed")
              ELSE paillier.dec.ok

C14_Witness ==
    /\ paillier.pc = "decAny"
    /\ paillier.c >= paillier.sk.n * paillier.sk.n
    /\ ~CoprimeRef(paillier.c, paillier.sk.n * paillier.sk.n)
    /\ paillier.dec = Err("message_too_long")

C14_WitnessMalformed ==
    /\ paillier.pc = "decAny"
    /\ paillier.c > paillier.sk.n
    /\ paillier.dec = Err("message_malformed")

C14_WitnessEncrypt ==
    /\ paillier.pc = "failed"
    /\ paillier.ea.ok
    /\ paillier.b = paillier.sk.n
    /\ paillier.eb.err = "message_too_long"

C2_WitnessMult ==
    /\ paillier.pc = "decProd"
    /\ paillier.k > paillier.sk.n
    /\ paillier.a > 1
    /\ paillier.dec.ok

(***************************************************************************)
(* common::prime: the primality checks and the safe-prime search.          *)
(***************************************************************************)
SMALL_PRIMES == {3, 5, 7, 11, 13, 17, 19, 23, 29, 31, 37, 41, 43, 47, 53}

(* simple_check::is_prime.  Every value of the model is below              *)
(* SMALL_PRIMES_PRODUCT, so v % SMALL_PRIMES_PRODUCT is v itself.          *)
simple_check_is_prime(v) ==
    LET m == v
    IN  \A prime \in SMALL_PRIMES : m = prime \/ m % prime # 0

(* num_prime's is_prime under the strict configuration: exact here.        *)
safe_prime_is_prime(v) ==
    v > 1 /\ \A d \in 2..sqrt(v) : v % d # 0

DEFAULT_REPS == 20

(* One base of miller_rabin::is_prime: the closure given to all().         *)
RECURSIVE miller_rabin_loop(_, _, _, _)
miller_rabin_loop(y, left, n, nm1) ==
    IF left = 0 THEN FALSE
    ELSE LET y2 == sqrt(y) % n
         IN  IF y2 = nm1 THEN TRUE
             ELSE IF y2 = 1 THEN FALSE
             ELSE miller_rabin_loop(y2, left - 1, n, nm1)

miller_rabin_base(n, x) ==
    LET nm1 == n - 1
        k == trailing_zeros(nm1)
        q == nm1 \div pow2(k)
        y == modpow(x, q, n)
    IN  IF y = 1 \/ y = nm1 THEN TRUE
        ELSE miller_rabin_loop(y, IF k > 1 THEN k - 1 ELSE 0, n, nm1)

(* miller_rabin::is_prime: the results it can return over the choices of   *)
(* the reps - 1 random bases of [2, n - 2]; the last base is 2.            *)
miller_rabin_is_prime(n, reps) ==
    LET last == miller_rabin_base(n, 2)
        rnd == {miller_rabin_base(n, a + 2) : a \in 0..(n - 4)}
    IN  IF reps = 0 THEN {TRUE}
        ELSE IF reps = 1 THEN {last}
        ELSE {r /\ last : r \in rnd}

NoPair == [some |-> FALSE, q |-> 0, p |-> 0]

SomePair(q, p) == [some |-> TRUE, q |-> q, p |-> p]

DELTA_BITS == 20

RECURSIVE with_delta_loop(_, _)
with_delta_loop(q, left) ==
    IF left = 0 THEN NoPair
    ELSE IF /\ simple_check_is_prime(q)
            /\ q % 3 # 1
            /\ simple_check_is_prime(2 * q + 1)
         THEN SomePair(q, 2 * q + 1)
         ELSE with_delta_loop(q + 2, left - 1)

with_delta(q) == with_delta_loop(q, pow2(DELTA_BITS - 1) - 1)

(* do_gen: a random value of bits - 2 bits with bits bits-1, bits-2 and 0  *)
(* set.                                                                    *)
do_gen(nbits) ==
    {set_bit(set_bit(set_bit(v, nbits - 1, TRUE), nbits - 2, TRUE), 0, TRUE) :
        v \in 0..(pow2(nbits - 2) - 1)}

gen_qp_check_no_bit_length(nbits, qp) ==
    {mr /\ modpow(2, qp.p - 1, qp.p) = 1
        /\ safe_prime_is_prime(qp.q) /\ safe_prime_is_prime(qp.p) :
            mr \in miller_rabin_is_prime(qp.q, DEFAULT_REPS)}

(* The closure check of gen_qp: the results it can return.                 *)
gen_qp_check(nbits, qp) ==
    IF bits(qp.q) # nbits THEN {FALSE}
    ELSE {mr /\ modpow(2, qp.p - 1, qp.p) = 1
             /\ safe_prime_is_prime(qp.q) /\ safe_prime_is_prime(qp.p) :
                 mr \in miller_rabin_is_prime(qp.q, DEFAULT_REPS)}

(* One task of the parallel search: with_delta(do_gen()).filter(check).    *)
gen_qp_task(nbits) ==
    UNION {LET qp == with_delta(g)
           IN  IF ~qp.some THEN {NoPair}
               ELSE {IF c THEN qp ELSE NoPair : c \in gen_qp_check(nbits, qp)} :
           g \in do_gen(nbits)}

(***************************************************************************)
(* common::miller_rabin and the sequential Generator of common::safe_prime.*)
(***************************************************************************)
PRIMES_AS_BIT_MASK == {2, 3, 5, 7, 11, 13, 17, 19, 23, 29, 31, 37, 41, 43, 47, 53, 59, 61}

PRIMES_A_MEMBERS == {3, 5, 7, 11, 13, 17, 19, 23, 37}

PRIMES_B_MEMBERS == {29, 31, 41, 43, 47, 53}

(* probably_prime_miller_rabin: the results it can return over the random  *)
(* bases; the rounds are those of prime.rs.                                *)
probably_prime_miller_rabin(n, reps) ==
    LET last == miller_rabin_base(n, 2)
        rnd == {miller_rabin_base(n, a + 2) : a \in 0..(n - 4)}
    IN  IF reps = 0 THEN {TRUE}
        ELSE IF reps = 1 THEN {last}
        ELSE {r /\ last : r \in rnd}

(* miller_rabin::is_prime(x, reps).  Every value of the model is below     *)
(* PRIMES_A and PRIMES_B (both above 2^31), so the three remainders        *)
(* r, r_a and r_b are x itself.                                            *)
is_prime(x, reps) ==
    IF bits(x) <= 6 THEN {x \in PRIMES_AS_BIT_MASK}
    ELSE IF x % 2 = 0 THEN {FALSE}
    ELSE LET r == x
             r_a == r
             r_b == r
         IN  IF \/ \E m \in PRIMES_A_MEMBERS : r_a % m = 0
                \/ \E m \in PRIMES_B_MEMBERS : r_b % m = 0
             THEN {FALSE}
             ELSE probably_prime_miller_rabin(x, reps)

RANDOM_BITS_MAX == 5000

check_bits_range_upper_only(nbits) == nbits <= RANDOM_BITS_MAX

check_bits_range(nbits) == nbits >= 1 /\ nbits <= RANDOM_BITS_MAX

get_random_int(nbits) == 0..(pow2(nbits) - 1)

TEST_NUM == 30

(* do_gen of Generator::safe_prime: get_random_int(bits - 1) | must_bits.  *)
Generator_do_gen(nbits) ==
    {set_bit(set_bit(set_bit(v, nbits - 1, TRUE), nbits - 2, TRUE), 0, TRUE) :
        v \in get_random_int(nbits - 1)}

(* One iteration of the loop of Generator::safe_prime: the pair it         *)
(* returns, or NoPair when the loop goes round again.                      *)
Generator_safe_prime_iteration(nbits) ==
    UNION {LET qp == with_delta(g)
           IN  IF ~qp.some \/ bits(qp.q) # nbits THEN {NoPair}
               ELSE {IF a /\ modpow(2, qp.p - 1, qp.p) = 1 /\ b /\ c
                     THEN qp ELSE NoPair :
                         a \in is_prime(qp.q, DEFAULT_REPS),
                         b \in is_prime(qp.q, TEST_NUM),
                         c \in is_prime(qp.p, TEST_NUM)} :
           g \in Generator_do_gen(nbits)}

(***************************************************************************)
(* GermainSafePrime::generate(bits) as a state machine: rounds of          *)
(* ConcurrentNum tasks, any task that found a pair may win the round       *)
(* (prime.rs, gen = "par"), or the loop of the sequential Generator        *)
(* (safe_prime.rs, gen = "seq").                                           *)
(***************************************************************************)
ConcurrentNum == 2

MinGenBits == 4

MaxGenBits == 10

GenQpTaskResults == [b \in MinGenBits..MaxGenBits |-> gen_qp_task(b - 1)]

GeneratorIterationResults ==
    [b \in MinGenBits..MaxGenBits |-> Generator_safe_prime_iteration(b - 1)]

InitSafePrime ==
    /\ safeprime \in [pc : {"search"}, gen : {"par", "seq"},
                      bits : MinGenBits..MaxGenBits,
                      tasks : {[i \in 1..ConcurrentNum |-> [st |-> "todo", r |-> NoPair]]},
                      prime : {0}, safe_prime : {0}]
    /\ modint = Idle
    /\ paillier = Idle
    /\ keygen = Idle
    /\ modproof = Idle
    /\ facproof = Idle
    /\ bobproof = Idle
    /\ dlnproof = Idle
    /\ paiproof = Idle
    /\ random = Idle
    /\ secrets = Idle
    /\ dlnwire = Idle
    /\ proofwire = Idle
    /\ verifyany = Idle
    /\ ntildei = Idle
    /\ hashing = Idle
    /\ ecpoint = Idle
    /\ fanout = Idle

GenQpTask ==
    /\ safeprime.pc = "search"
    /\ safeprime.gen = "par"
    /\ \E i \in 1..ConcurrentNum :
          /\ safeprime.tasks[i].st = "todo"
          /\ \E r \in GenQpTaskResults[safeprime.bits] :
                safeprime' = [safeprime EXCEPT !.tasks[i] = [st |-> "ran", r |-> r]]
    /\ UNCHANGED <<modint, paillier, keygen, modproof, facproof, bobproof, dlnproof, paiproof, random, secrets, dlnwire, proofwire, verifyany, ntildei, hashing, ecpoint, fanout>>

(* find_map_any: the pair of any task that found one is returned.          *)
GenQpFound ==
    /\ safeprime.pc = "search"
    /\ safeprime.gen = "par"
    /\ \E i \in 1..ConcurrentNum :
          /\ safeprime.tasks[i].st = "ran"
          /\ safeprime.tasks[i].r.some
          /\ safeprime' = [safeprime EXCEPT !.pc = "done",
                              !.prime = safeprime.tasks[i].r.q,
                              !.safe_prime = safeprime.tasks[i].r.p]
    /\ UNCHANGED <<modint, paillier, keygen, modproof, facproof, bobproof, dlnproof, paiproof, random, secrets, dlnwire, proofwire, verifyany, ntildei, hashing, ecpoint, fanout>>

(* find_map over (0..): a round in which no task found a pair is repeated. *)
GenQpNextRound ==
    /\ safeprime.pc = "search"
    /\ safeprime.gen = "par"
    /\ \A i \in 1..ConcurrentNum :
          safeprime.tasks[i].st = "ran" /\ ~safeprime.tasks[i].r.some
    /\ safeprime' = [safeprime EXCEPT
          !.tasks = [i \in 1..ConcurrentNum |-> [st |-> "todo", r |-> NoPair]]]
    /\ UNCHANGED <<modint, paillier, keygen, modproof, facproof, bobproof, dlnproof, paiproof, random, secrets, dlnwire, proofwire, verifyany, ntildei, hashing, ecpoint, fanout>>

(* Generator::safe_prime: one iteration of its loop; an error of           *)
(* get_random_int ends the call.                                           *)
GeneratorSafePrime ==
    /\ safeprime.pc = "search"
    /\ safeprime.gen = "seq"
    /\ IF ~check_bits_range(safeprime.bits - 2)
       THEN safeprime' = [safeprime EXCEPT !.pc = "failed"]
       ELSE \E r \in GeneratorIterationResults[safeprime.bits] :
               IF r.some
               THEN safeprime' = [safeprime EXCEPT !.pc = "done",
                                     !.prime = r.q, !.safe_prime = r.p]
               ELSE UNCHANGED safeprime
    /\ UNCHANGED <<modint, paillier, keygen, modproof, facproof, bobproof, dlnproof, paiproof, random, secrets, dlnwire, proofwire, verifyany, ntildei, hashing, ecpoint, fanout>>

NextSafePrime == GenQpTask \/ GenQpFound \/ GenQpNextRound \/ GeneratorSafePrime

SpecSafePrime == InitSafePrime /\ [][NextSafePrime]_vars

NumDivisors(v) == Cardinality({d \in 1..v : v % d = 0})

RECURSIVE PowModHalving(_, _, _)
PowModHalving(x, e, m) ==
    IF e = 0 THEN 1 % m
    ELSE LET h == PowModHalving(x, e \div 2, m)
         IN  (((h * h) % m) * (IF e % 2 = 1 THEN x % m ELSE 1)) % m

(* C4: every pair (q, p) returned by GermainSafePrime::generate(bits),     *)
(* whichever task wins, has p = 2q + 1, bitlen(q) = bits - 1,              *)
(* bitlen(p) = bits, q and p prime, and 2^(p-1) mod p = 1.                 *)
C4_SafePrimePair ==
    safeprime.pc = "done" =>
        LET q == safeprime.prime
            p == safeprime.safe_prime
        IN  /\ p = 2 * q + 1
            /\ pow2(safeprime.bits - 2) <= q /\ q < pow2(safeprime.bits - 1)
            /\ pow2(safeprime.bits - 1) <= p /\ p < pow2(safeprime.bits)
            /\ NumDivisors(q) = 2
            /\ NumDivisors(p) = 2
            /\ PowModHalving(2, p - 1, p) = 1

C4_Witness ==
    /\ safeprime.pc = "done"
    /\ safeprime.bits = 10
    /\ safeprime.safe_prime = 983
    /\ \E i \in 1..ConcurrentNum :
          /\ safeprime.tasks[i].r.some
          /\ safeprime.tasks[i].r.q # safeprime.prime

(***************************************************************************)
(* PrivateKey::generate: rounds of ConcurrentNum tasks, each drawing two   *)
(* safe primes; find_any returns any pair with the difference margin.      *)
(***************************************************************************)
PQ_BIT_LEN_DIFFERENCE == 3

(* The values GermainSafePrime::generate(bits) can return.                 *)
GermainSafePrime_generate(nbits) ==
    IF nbits \in DOMAIN GenQpTaskResults
    THEN {r \in GenQpTaskResults[nbits] : r.some}
    ELSE {}

(* The closure mapped over the tasks of gen_pq.                            *)
gen_pq_task(bit_len) ==
    {IF a.p > b.p THEN <<a.p, b.p>> ELSE <<b.p, a.p>> :
        a \in GermainSafePrime_generate(bit_len),
        b \in GermainSafePrime_generate(bit_len)}

gen_pq_find_any_unfiltered(bit_len, pq) == TRUE

(* The predicate of find_any in gen_pq.                                    *)
gen_pq_find_any(bit_len, pq) ==
    LET min_sub == bit_len - PQ_BIT_LEN_DIFFERENCE
    IN  bits(pq[1] - pq[2]) >= min_sub

NoKey == [n |-> 0, p |-> 0, q |-> 0, phi_n |-> 0, lambda_n |-> 0]

InitKeyGen ==
    /\ keygen \in [pc : {"search"},
                   mudulus_bit_len : (2 * MinGenBits)..(2 * MaxGenBits + 1),
                   tasks : {[i \in 1..ConcurrentNum |-> [st |-> "todo", pq |-> <<0, 0>>]]},
                   sk : {NoKey}]
    /\ modint = Idle
    /\ paillier = Idle
    /\ safeprime = Idle
    /\ modproof = Idle
    /\ facproof = Idle
    /\ bobproof = Idle
    /\ dlnproof = Idle
    /\ paiproof = Idle
    /\ random = Idle
    /\ secrets = Idle
    /\ dlnwire = Idle
    /\ proofwire = Idle
    /\ verifyany = Idle
    /\ ntildei = Idle
    /\ hashing = Idle
    /\ ecpoint = Idle
    /\ fanout = Idle

GenPqTask ==
    /\ keygen.pc = "search"
    /\ \E i \in 1..ConcurrentNum :
          /\ keygen.tasks[i].st = "todo"
          /\ \E pq \in gen_pq_task(keygen.mudulus_bit_len \div 2) :
                keygen' = [keygen EXCEPT !.tasks[i] = [st |-> "ran", pq |-> pq]]
    /\ UNCHANGED <<modint, paillier, safeprime, modproof, facproof, bobproof, dlnproof, paiproof, random, secrets, dlnwire, proofwire, verifyany, ntildei, hashing, ecpoint, fanout>>

(* find_any found a pair: generate builds the key from it.                 *)
GenPqFound ==
    /\ keygen.pc = "search"
    /\ \E i \in 1..ConcurrentNum :
          /\ keygen.tasks[i].st = "ran"
          /\ gen_pq_find_any(keygen.mudulus_bit_len \div 2, keygen.tasks[i].pq)
          /\ keygen' = [keygen EXCEPT !.pc = "done",
                           !.sk = PrivateKey_new(keygen.tasks[i].pq[1],
                                                 keygen.tasks[i].pq[2])]
    /\ UNCHANGED <<modint, paillier, safeprime, modproof, facproof, bobproof, dlnproof, paiproof, random, secrets, dlnwire, proofwire, verifyany, ntildei, hashing, ecpoint, fanout>>

(* find_map over (0..): a round in which find_any found nothing is         *)
(* repeated.                                                               *)
GenPqNextRound ==
    /\ keygen.pc = "search"
    /\ \A i \in 1..ConcurrentNum :
          /\ keygen.tasks[i].st = "ran"
          /\ ~gen_pq_find_any(keygen.mudulus_bit_len \div 2, keygen.tasks[i].pq)
    /\ keygen' = [keygen EXCEPT
          !.tasks = [i \in 1..ConcurrentNum |-> [st |-> "todo", pq |-> <<0, 0>>]]]
    /\ UNCHANGED <<modint, paillier, safeprime, modproof, facproof, bobproof, dlnproof, paiproof, random, secrets, dlnwire, proofwire, verifyany, ntildei, hashing, ecpoint, fanout>>

NextKeyGen == GenPqTask \/ GenPqFound \/ GenPqNextRound

SpecKeyGen == InitKeyGen /\ [][NextKeyGen]_vars

IsSafePrimeOfBits(p, nbits) ==
    /\ pow2(nbits - 1) <= p /\ p < pow2(nbits)
    /\ NumDivisors(p) = 2
    /\ p % 2 = 1 /\ NumDivisors((p - 1) \div 2) = 2

IsLcm(l, a, b) ==
    /\ l > 0 /\ l % a = 0 /\ l % b = 0
    /\ \A j \in 1..(l \div a) : j * a < l => (j * a) % b # 0

(* C3: every key returned by PrivateKey::generate(bits), whichever task    *)
(* the first-match search picks, has p > q, p and q safe primes of bits/2  *)
(* bits, n = p*q, phi_n = (p-1)*(q-1), lambda_n = lcm(p-1, q-1) and        *)
(* bitlen(p - q) >= bits/2 - 3.                                            *)
C3_GeneratedKey ==
    keygen.pc = "done" =>
        LET sk == keygen.sk
            bit_len == keygen.mudulus_bit_len \div 2
        IN  /\ sk.p > sk.q
            /\ IsSafePrimeOfBits(sk.p, bit_len)
            /\ IsSafePrimeOfBits(sk.q, bit_len)
            /\ sk.n = sk.p * sk.q
            /\ sk.phi_n = (sk.p - 1) * (sk.q - 1)
            /\ IsLcm(sk.lambda_n, sk.p - 1, sk.q - 1)
            /\ sk.p - sk.q >= pow2(bit_len - PQ_BIT_LEN_DIFFERENCE - 1)

C3_Witness ==
    /\ keygen.pc = "done"
    /\ keygen.sk.p = 983 /\ keygen.sk.q = 839
    /\ \E i \in 1..ConcurrentNum :
          /\ keygen.tasks[i].st = "ran"
          /\ keygen.tasks[i].pq[1] - keygen.tasks[i].pq[2] < 64

(***************************************************************************)
(* crypto::hash: the byte stream that is hashed, and rejection_sample.     *)
(* Sha512_256 is a fixed function of the byte stream; the digest is        *)
(* Hash256_LEN bytes wide.                                                 *)
(***************************************************************************)
RECURSIVE to_bytes_be(_)
to_bytes_be(x) ==
    IF x < 256 THEN <<x>> ELSE Append(to_bytes_be(x \div 256), x % 256)

RECURSIVE from_bytes_be_acc(_, _)
from_bytes_be_acc(bs, acc) ==
    IF bs = <<>> THEN acc ELSE from_bytes_be_acc(Tail(bs), acc * 256 + Head(bs))

from_bytes_be(bs) == from_bytes_be_acc(bs, 0)

RECURSIVE to_le_bytes_n(_, _)
to_le_bytes_n(x, k) ==
    IF k = 0 THEN <<>> ELSE <<x % 256>> \o to_le_bytes_n(x \div 256, k - 1)

(* u64::to_le_bytes                                                        *)
to_le_bytes(x) == to_le_bytes_n(x, 8)

RECURSIVE to_be_bytes_n(_, _)
to_be_bytes_n(x, k) ==
    IF k = 0 THEN <<>> ELSE Append(to_be_bytes_n(x \div 256, k - 1), x % 256)

Hash256_LEN == 1

HASH_INPUT_DELIMITER == <<36>>

(* The hasher: the state after the bytes bs is a polynomial in the bytes,  *)
(* so successive updates absorb the concatenation of their arguments.      *)
RECURSIVE Sha512_256_update(_)
Sha512_256_update(bs) ==
    IF Len(bs) = 0 THEN 0
    ELSE IF Len(bs) = 1 THEN bs[1] + 1
    ELSE LET mid == Len(bs) \div 2
             l == Sha512_256_update(SubSeq(bs, 1, mid))
             r == Sha512_256_update(SubSeq(bs, mid + 1, Len(bs)))
         IN  (l * modpow(31, Len(bs) - mid, 32749) + r) % 32749

Sha512_256_finalize(h) ==
    to_be_bytes_n(((h \div 7) + h) % pow2(8 * Hash256_LEN), Hash256_LEN)

RECURSIVE sha512_256_sources(_)
sha512_256_sources(src_list) ==
    IF src_list = <<>> THEN <<>>
    ELSE LET src == Head(src_list)
             len64 == to_le_bytes(Len(src))
         IN  src \o HASH_INPUT_DELIMITER \o len64 \o sha512_256_sources(Tail(src_list))

NoTag == [some |-> FALSE, bytes |-> <<>>]

SomeTag(bs) == [some |-> TRUE, bytes |-> bs]

(* The bytes given to the hasher, in order.                                *)
sha512_256_stream(tag, src_list) ==
    LET hashed_tag ==
            Sha512_256_finalize(Sha512_256_update(
                to_le_bytes(1) \o sha512_256_sources(<<tag.bytes>>)))
        prefix == IF tag.some THEN hashed_tag \o hashed_tag ELSE <<>>
        in_len_bz == to_le_bytes(Len(src_list))
    IN  prefix \o in_len_bz \o sha512_256_sources(src_list)

sha512_256(tag, src_list) ==
    Sha512_256_finalize(Sha512_256_update(sha512_256_stream(tag, src_list)))

sha512_256i(tag, src_list) ==
    LET bs_list == [i \in DOMAIN src_list |->
                       IF src_list[i] = 0 THEN <<>> ELSE to_bytes_be(src_list[i])]
    IN  sha512_256(tag, bs_list)

hash_sha512_256(src_list) == sha512_256(NoTag, src_list)

hash_sha512_256i(src_list) == sha512_256i(NoTag, src_list)

hash_sha512_256i_tagged(tag, src_list) == sha512_256i(SomeTag(tag), src_list)

rejection_sample_unreduced(q, hash) == from_bytes_be(hash)

rejection_sample(q, hash) ==
    LET eh == from_bytes_be(hash)
    IN  eh % q

(***************************************************************************)
(* The Jacobi symbol of num_modular, for an odd modulus n (it panics on an *)
(* even one).                                                              *)
(***************************************************************************)
RECURSIVE jacobi_loop(_, _, _)
jacobi_loop(a, n, t) ==
    IF a = 0 THEN (IF n = 1 THEN t ELSE 0)
    ELSE IF a % 2 = 0
         THEN jacobi_loop(a \div 2, n, IF n % 8 \in {3, 5} THEN 0 - t ELSE t)
         ELSE jacobi_loop(n % a, a, IF a % 4 = 3 /\ n % 4 = 3 THEN 0 - t ELSE t)

jacobi(a, n) == jacobi_loop(a % n, n, 1)

(* get_random_quadratic_non_residue: the values the loop can end with.     *)
get_random_quadratic_non_residue(modulus) ==
    {r \in get_random_positive_int(modulus) : r # 0 /\ jacobi(r, modulus) < 0}

(***************************************************************************)
(* crypto::proof::mod_proof: ProofMod::new and ProofMod::verify.           *)
(***************************************************************************)
Iterations_SIZE == 3

ProofMod_is_quadratic_residue(a, b) == jacobi(a, b) < 0

RECURSIVE mk_ys_generate(_, _, _, _)
mk_ys_generate(session, n, ys, left) ==
    IF left = 0 THEN ys
    ELSE LET ei == hash_sha512_256i_tagged(session, ys)
             v == rejection_sample(n, ei)
         IN  mk_ys_generate(session, n, Append(ys, v), left - 1)

ProofMod_mk_ys(session, n, w) ==
    LET seed == <<w, n>>
        ys == mk_ys_generate(session, n, seed, Iterations_SIZE)
    IN  SubSeq(ys, Len(seed) + 1, Len(ys))

(* The closure given to convert in ProofMod::new, from combination j on:   *)
(* the values pushed and the bits set for one y_i.                         *)
RECURSIVE ProofMod_new_index(_, _, _, _, _, _, _, _)
ProofMod_new_index(n, p, q, w, expo, inv_n, yi, j) ==
    IF j = 4 THEN [found |-> FALSE, x |-> 0, z |-> 0, a |-> FALSE, b |-> FALSE]
    ELSE LET a_ == j % 2
             b_ == (j \div 2) % 2
             y1 == IF a_ > 0 THEN ModInt_sub(n, 0, yi) ELSE yi
             yv == IF b_ > 0 THEN ModInt_mul(n, w, y1) ELSE y1
         IN  IF /\ ProofMod_is_quadratic_residue(yv, p)
                /\ ProofMod_is_quadratic_residue(yv, q)
             THEN [found |-> TRUE, x |-> ModInt_pow(n, yv, expo),
                   z |-> ModInt_pow(n, yi, inv_n), a |-> a_ > 0, b |-> b_ > 0]
             ELSE ProofMod_new_index(n, p, q, w, expo, inv_n, yi, j + 1)

RECURSIVE ProofMod_set_bits(_, _, _)
ProofMod_set_bits(v, flags, i) ==
    IF i > Len(flags) THEN v
    ELSE ProofMod_set_bits(IF flags[i].found THEN set_bit(v, i - 1, flags[i].on) ELSE v,
                           flags, i + 1)

NoProofMod == [ok |-> FALSE, w |-> 0, x |-> <<>>, a |-> 0, b |-> 0, z |-> <<>>]

(* ProofMod::new with the non-residue w that was drawn.                    *)
ProofMod_new(session, n, p, q, w) ==
    LET phi == (p - 1) * (q - 1)
        y == ProofMod_mk_ys(session, n, w)
        inv_n == ModInt_mod_inverse(phi, n)
        expo == LET a == (phi + 4) \div 8 IN ModInt_mul(phi, a, a)
        r == [i \in 1..Iterations_SIZE |->
                 ProofMod_new_index(n, p, q, w, expo, inv_n.val, y[i], 0)]
    IN  IF ~inv_n.ok THEN NoProofMod
        ELSE [ok |-> TRUE, w |-> w,
              x |-> [i \in 1..Iterations_SIZE |-> r[i].x],
              a |-> ProofMod_set_bits(pow2(Iterations_SIZE),
                       [i \in 1..Iterations_SIZE |-> [found |-> r[i].found, on |-> r[i].a]], 1),
              b |-> ProofMod_set_bits(pow2(Iterations_SIZE),
                       [i \in 1..Iterations_SIZE |-> [found |-> r[i].found, on |-> r[i].b]], 1),
              z |-> [i \in 1..Iterations_SIZE |-> r[i].z]]

(* The check of one index in ProofMod::verify.                             *)
ProofMod_verify_index(proof, n, y, i) ==
    LET xi == proof.x[i]
        yi == y[i]
        zi == proof.z[i]
        y1 == IF bit(proof.a, i - 1) THEN ModInt_sub(n, 0, yi) ELSE yi
        yv == IF bit(proof.b, i - 1) THEN ModInt_mul(n, proof.w, y1) ELSE y1
    IN  /\ ModInt_pow(n, zi, n) = yi
        /\ ModInt_pow(n, xi, 4) = yv

(* ProofMod::verify for an odd n: the results it can return over the       *)
(* random bases of is_prime(n, Some(30)).                                  *)
ProofMod_verify(proof, session, n) ==
    IF ProofMod_is_quadratic_residue(proof.w, n) THEN {FALSE}
    ELSE IF proof.w < n THEN {FALSE}
    ELSE IF \E i \in DOMAIN proof.z : proof.z[i] < n THEN {FALSE}
    ELSE IF \E i \in DOMAIN proof.x : proof.x[i] < n THEN {FALSE}
    ELSE IF bits(proof.a) # Iterations_SIZE + 1 THEN {FALSE}
    ELSE IF bits(proof.b) # Iterations_SIZE + 1 THEN {FALSE}
    ELSE IF ~bit(n, 0) THEN {FALSE}
    ELSE LET y == ProofMod_mk_ys(session, n, proof.w)
             all == \A i \in 1..Iterations_SIZE : ProofMod_verify_index(proof, n, y, i)
         IN  {IF prime THEN FALSE ELSE all : prime \in miller_rabin_is_prime(n, 30)}

Sessions == {<<>>, <<7>>, <<1, 2>>}

BlumPrimes == {3, 7, 11}

InitModProof ==
    /\ modproof \in [pc : {"start"}, session : Sessions,
                     p : BlumPrimes, q : BlumPrimes,
                     proof : {NoProofMod}, verified : {FALSE}]
    /\ modproof.p # modproof.q
    /\ modint = Idle
    /\ paillier = Idle
    /\ safeprime = Idle
    /\ keygen = Idle
    /\ facproof = Idle
    /\ bobproof = Idle
    /\ dlnproof = Idle
    /\ paiproof = Idle
    /\ random = Idle
    /\ secrets = Idle
    /\ dlnwire = Idle
    /\ proofwire = Idle
    /\ verifyany = Idle
    /\ ntildei = Idle
    /\ hashing = Idle
    /\ ecpoint = Idle
    /\ fanout = Idle

ProofModNew ==
    /\ modproof.pc = "start"
    /\ LET n == modproof.p * modproof.q
       IN  \E w \in get_random_quadratic_non_residue(n) :
              LET proof == ProofMod_new(modproof.session, n, modproof.p, modproof.q, w)
              IN  modproof' = [modproof EXCEPT
                      !.pc = IF proof.ok THEN "proved" ELSE "failed",
                      !.proof = proof]
    /\ UNCHANGED <<modint, paillier, safeprime, keygen, facproof, bobproof, dlnproof, paiproof, random, secrets, dlnwire, proofwire, verifyany, ntildei, hashing, ecpoint, fanout>>

ProofModVerify ==
    /\ modproof.pc = "proved"
    /\ \E r \in ProofMod_verify(modproof.proof, modproof.session,
                                modproof.p * modproof.q) :
          modproof' = [modproof EXCEPT !.pc = "verified", !.verified = r]
    /\ UNCHANGED <<modint, paillier, safeprime, keygen, facproof, bobproof, dlnproof, paiproof, random, secrets, dlnwire, proofwire, verifyany, ntildei, hashing, ecpoint, fanout>>

NextModProof == ProofModNew \/ ProofModVerify

SpecModProof == InitModProof /\ [][NextModProof]_vars

(* C5: for every Blum modulus n = p*q and every session tag,               *)
(* ProofMod::verify(session, n) returns true on the proof returned by      *)
(* ProofMod::new(session, n, p, q).                                        *)
C5_VerifyAcceptsNew ==
    modproof.pc = "verified" => modproof.verified

(* v is a non-zero square modulo the prime p. *)
IsSquareModPrime(v, p) == \E r \in 1..(p - 1) : (r * r) % p = v % p

(* The value the recorded bits select for index i: (-1)^a_i * w^b_i * y_i. *)
ProofModSelected(proof, n, y, i) ==
    LET signed == IF bit(proof.a, i - 1) THEN (n - (y[i] % n)) % n ELSE y[i] % n
    IN  IF bit(proof.b, i - 1) THEN (proof.w * signed) % n ELSE signed

(* C27: in every proof of ProofMod::new for n = p*q (p, q primes congruent *)
(* to 3 mod 4), for each index i the recorded bits (a_i, b_i) select the   *)
(* value v_i that is a quadratic residue modulo both p and q,              *)
(* x_i^4 = v_i (mod n), z_i^n = y_i (mod n), no x_i or z_i is the zero     *)
(* fallback, and a and b are each Iterations::SIZE + 1 bits wide.          *)
C27_NewSelectsResidues ==
    (modproof.pc = "proved") =>
        LET proof == modproof.proof
            n == modproof.p * modproof.q
            y == ProofMod_mk_ys(modproof.session, n, proof.w)
        IN  /\ bits(proof.a) = Iterations_SIZE + 1
            /\ bits(proof.b) = Iterations_SIZE + 1
            /\ \A i \in 1..Iterations_SIZE :
                  LET v == ProofModSelected(proof, n, y, i)
                  IN  /\ IsSquareModPrime(v, modproof.p)
                      /\ IsSquareModPrime(v, modproof.q)
                      /\ modpow(proof.x[i], 4, n) = v
                      /\ modpow(proof.z[i], n, n) = y[i]
                      /\ proof.x[i] # 0
                      /\ proof.z[i] # 0

(* What ProofMod::new records: a and b have the guard bit, and at every    *)
(* index either the zero fallback, or a selected value that is a           *)
(* non-residue modulo both p and q, with z_i^n = y_i.                      *)
C27_NewSelectsNonResidues ==
    (modproof.pc = "proved") =>
        LET proof == modproof.proof
            n == modproof.p * modproof.q
            y == ProofMod_mk_ys(modproof.session, n, proof.w)
        IN  /\ bits(proof.a) = Iterations_SIZE + 1
            /\ bits(proof.b) = Iterations_SIZE + 1
            /\ \A i \in 1..Iterations_SIZE :
                  LET v == ProofModSelected(proof, n, y, i)
                  IN  \/ proof.x[i] = 0 /\ proof.z[i] = 0
                      \/ /\ v % modproof.p # 0
                         /\ v % modproof.q # 0
                         /\ ~IsSquareModPrime(v, modproof.p)
                         /\ ~IsSquareModPrime(v, modproof.q)
                         /\ modpow(proof.z[i], n, n) = y[i]

C27_WitnessNonResidue ==
    /\ modproof.pc = "proved"
    /\ \E i \in 1..Iterations_SIZE :
          /\ modproof.proof.x[i] # 0
          /\ ~IsSquareModPrime(ProofModSelected(modproof.proof, modproof.p * modproof.q,
                 ProofMod_mk_ys(modproof.session, modproof.p * modproof.q,
                                modproof.proof.w), i), modproof.p)

(***************************************************************************)
(* crypto::proof::fac_proof: ProofFac::new and ProofFac::verify.           *)
(***************************************************************************)
NoneInt == [some |-> FALSE, val |-> 0]

SomeInt(v) == [some |-> TRUE, val |-> v]

VerifyParam_mul_st(vp, m, ns, a, b) ==
    LET x == ModInt_pow(m, IF ns.some THEN ns.val ELSE vp.n_tildei.v1, a)
        y == ModInt_pow(m, vp.n_tildei.v2, b)
    IN  ModInt_mul(m, x, y)

VerifyParam_e_hash(vp, p, q, a, b, t, sigma) ==
    LET list == <<vp.n0, vp.n_tildei.n, vp.n_tildei.v1, vp.n_tildei.v2,
                  p, q, a, b, t, sigma>>
        eh == hash_sha512_256i_tagged(vp.session, list)
    IN  rejection_sample(vp.curve_n, eh)

(* The ceilings of the values ProofFac::new samples.                       *)
ProofFac_ceilings(vp) ==
    LET q3 == pow(vp.curve_n, 3)
        ncap == vp.n_tildei.n
        q_ncap == vp.curve_n * ncap
        n0 == vp.n0
        q_n0_ncap == q_ncap * n0
        q3_ncap == q3 * ncap
        q3_n0_ncap == q3_ncap * n0
        q3_sqrt_n0 == q3 * sqrt(n0)
    IN  [q_ncap |-> q_ncap, q_n0_ncap |-> q_n0_ncap, q3_ncap |-> q3_ncap,
         q3_n0_ncap |-> q3_n0_ncap, q3_sqrt_n0 |-> q3_sqrt_n0]

(* ProofFac::new with the values rnd that were sampled.                    *)
ProofFac_new(vp, n0p, n0q, rnd) ==
    LET m == vp.n_tildei.n
        p == VerifyParam_mul_st(vp, m, NoneInt, n0p, rnd.mu)
        q == VerifyParam_mul_st(vp, m, NoneInt, n0q, rnd.nu)
        a == VerifyParam_mul_st(vp, m, NoneInt, rnd.alpha, rnd.x)
        b == VerifyParam_mul_st(vp, m, NoneInt, rnd.beta, rnd.y)
        t == VerifyParam_mul_st(vp, m, SomeInt(q), rnd.alpha, rnd.r)
        e == VerifyParam_e_hash(vp, p, q, a, b, t, rnd.sigma)
    IN  [p |-> p, q |-> q, a |-> a, b |-> b, t |-> t, sigma |-> rnd.sigma,
         z1 |-> e * n0p + rnd.alpha,
         z2 |-> e * n0q + rnd.beta,
         w1 |-> e * rnd.mu + rnd.x,
         w2 |-> e * rnd.nu + rnd.y,
         v |-> e * (rnd.sigma - rnd.nu * n0p) + rnd.r]

(* The equality checks of ProofFac::verify.                                *)
ProofFac_verify_equalities(proof, vp) ==
    LET e == VerifyParam_e_hash(vp, proof.p, proof.q, proof.a, proof.b, proof.t,
                                proof.sigma)
        m == vp.n_tildei.n
        y == ModInt_powi(m, vp.n_tildei.v2, proof.v)
    IN  IF VerifyParam_mul_st(vp, m, NoneInt, proof.z1, proof.w1)
              # ModInt_mul(m, proof.a, ModInt_pow(m, proof.p, e))
        THEN FALSE
        ELSE IF VerifyParam_mul_st(vp, m, NoneInt, proof.z2, proof.w2)
                   # ModInt_mul(m, proof.b, ModInt_pow(m, proof.q, e))
        THEN FALSE
        ELSE IF y.ok
        THEN LET x == ModInt_pow(m, proof.q, proof.z1)
                 a == ModInt_mul(m, x, y.val)
                 r == VerifyParam_mul_st(vp, m, NoneInt, vp.n0, proof.sigma)
                 b == ModInt_mul(m, proof.t, ModInt_pow(m, r, e))
             IN  a = b
        ELSE FALSE

ProofFac_verify_no_range_check(proof, vp) == ProofFac_verify_equalities(proof, vp)

ProofFac_verify(proof, vp) ==
    LET q3 == pow(vp.curve_n, 3)
        sqrt_n0 == sqrt(vp.n0)
        q3_sqrt_n0 == q3 * sqrt_n0
    IN  IF q3_sqrt_n0 <= proof.z1 THEN FALSE
        ELSE IF q3_sqrt_n0 <= proof.z2 THEN FALSE
        ELSE ProofFac_verify_equalities(proof, vp)

(* The values drawn for gen_biguint_below(ceiling): the ends of the range, *)
(* and the ends with the middle.                                           *)
gen_biguint_below_ends(ceiling) == {0, ceiling - 1}

gen_biguint_below_sample(ceiling) == {0, ceiling \div 2, ceiling - 1}

FacSessions == {<<>>, <<7>>}

FacCurveOrders == {2, 3}

FacFactors == {<<3, 5>>, <<7, 3>>}

FacNTildeis == {[n |-> 35, v1 |-> 9, v2 |-> 4], [n |-> 21, v1 |-> 16, v2 |-> 4]}

NoProofFac ==
    [p |-> 0, q |-> 0, a |-> 0, b |-> 0, t |-> 0, sigma |-> 0,
     z1 |-> 0, z2 |-> 0, w1 |-> 0, w2 |-> 0, v |-> 0]

InitFacProof ==
    /\ \E s \in FacSessions, cn \in FacCurveOrders, pq \in FacFactors, nt \in FacNTildeis :
          facproof = [pc |-> "start",
                      vp |-> [session |-> s, curve_n |-> cn, n0 |-> pq[1] * pq[2],
                              n_tildei |-> nt],
                      n0p |-> pq[1], n0q |-> pq[2],
                      proof |-> NoProofFac, verified |-> FALSE]
    /\ modint = Idle
    /\ paillier = Idle
    /\ safeprime = Idle
    /\ keygen = Idle
    /\ modproof = Idle
    /\ bobproof = Idle
    /\ dlnproof = Idle
    /\ paiproof = Idle
    /\ random = Idle
    /\ secrets = Idle
    /\ dlnwire = Idle
    /\ proofwire = Idle
    /\ verifyany = Idle
    /\ ntildei = Idle
    /\ hashing = Idle
    /\ ecpoint = Idle
    /\ fanout = Idle

ProofFacNew ==
    /\ facproof.pc = "start"
    /\ LET c == ProofFac_ceilings(facproof.vp)
       IN  \E alpha \in gen_biguint_below_sample(c.q3_sqrt_n0),
              beta \in gen_biguint_below_sample(c.q3_sqrt_n0),
              mu \in gen_biguint_below_ends(c.q_ncap),
              nu \in gen_biguint_below_ends(c.q_ncap),
              sigma \in gen_biguint_below_sample(c.q_n0_ncap),
              r \in {1, c.q3_n0_ncap - 1},
              x \in gen_biguint_below_ends(c.q3_ncap),
              y \in gen_biguint_below_ends(c.q3_ncap) :
              /\ is_number_in_multiplicative_group(c.q3_n0_ncap, r)
              /\ facproof' = [facproof EXCEPT
                     !.pc = "proved",
                     !.proof = ProofFac_new(facproof.vp, facproof.n0p, facproof.n0q,
                                  [alpha |-> alpha, beta |-> beta, mu |-> mu, nu |-> nu,
                                   sigma |-> sigma, r |-> r, x |-> x, y |-> y])]
    /\ UNCHANGED <<modint, paillier, safeprime, keygen, modproof, bobproof, dlnproof, paiproof, random, secrets, dlnwire, proofwire, verifyany, ntildei, hashing, ecpoint, fanout>>

ProofFacVerify ==
    /\ facproof.pc = "proved"
    /\ facproof' = [facproof EXCEPT
           !.pc = "verified",
           !.verified = ProofFac_verify(facproof.proof, facproof.vp)]
    /\ UNCHANGED <<modint, paillier, safeprime, keygen, modproof, bobproof, dlnproof, paiproof, random, secrets, dlnwire, proofwire, verifyany, ntildei, hashing, ecpoint, fanout>>

NextFacProof == ProofFacNew \/ ProofFacVerify

SpecFacProof == InitFacProof /\ [][NextFacProof]_vars

FacRangeBound == pow(facproof.vp.curve_n, 3) * sqrt(facproof.vp.n0)

(* C6 as stated: ProofFac::verify returns true on every proof of           *)
(* ProofFac::new, for every choice of the sampled blinding values.         *)
C6_VerifyAcceptsNew ==
    facproof.pc = "verified" => facproof.verified

(* C6, amended: ProofFac::verify returns true on a proof of ProofFac::new  *)
(* exactly when both responses z1 = e*p + alpha and z2 = e*q + beta are    *)
(* below Q^3 * isqrt(n0); it returns false on the proofs whose alpha or    *)
(* beta is so near the top of its range that e*p or e*q carries it over.   *)
C6_VerifyAcceptsInRange ==
    facproof.pc = "verified" =>
        (facproof.verified <=>
            (facproof.proof.z1 < FacRangeBound /\ facproof.proof.z2 < FacRangeBound))

C6_Witness ==
    /\ facproof.pc = "verified"
    /\ facproof.verified
    /\ facproof.proof.v < 0
    /\ facproof.proof.z1 > FacRangeBound \div 2
    /\ facproof.proof.w1 > facproof.proof.w2
    /\ VerifyParam_e_hash(facproof.vp, facproof.proof.p, facproof.proof.q,
                          facproof.proof.a, facproof.proof.b, facproof.proof.t,
                          facproof.proof.sigma) > 0

(***************************************************************************)
(* crypto::utils::ecdsa over a curve C. The curve is y^2 = x^3 + b over    *)
(* the field of p elements, with generator g of prime order; affine points *)
(* carry a flag for the point at infinity.                                 *)
(***************************************************************************)
Curve == [p |-> 13, b |-> 7, order |-> 7, g |-> [inf |-> FALSE, x |-> 7, y |-> 5]]

identity == [inf |-> TRUE, x |-> 0, y |-> 0]

point_add(a, b) ==
    LET p == Curve.p
    IN  IF a.inf THEN b
        ELSE IF b.inf THEN a
        ELSE IF a.x = b.x /\ (a.y + b.y) % p = 0 THEN identity
        ELSE LET num == IF a.x = b.x THEN mulm(3, a.x * a.x, p) ELSE subm(b.y, a.y, p)
                 den == IF a.x = b.x THEN mulm(2, a.y, p) ELSE subm(b.x, a.x, p)
                 l == mulm(num, invm(den, p).val, p)
                 x3 == subm(subm(mulm(l, l, p), a.x, p), b.x, p)
                 y3 == subm(mulm(l, subm(a.x, x3, p), p), a.y, p)
             IN  [inf |-> FALSE, x |-> x3, y |-> y3]

RECURSIVE point_mul(_, _)
point_mul(a, k) ==
    IF k = 0 THEN identity
    ELSE LET h == point_mul(a, k \div 2)
             d == point_add(h, h)
         IN  IF k % 2 = 1 THEN point_add(d, a) ELSE d

mul_by_generator(s) == point_mul(Curve.g, s)

point_xy(point) == IF point.inf THEN <<0, 0>> ELSE <<point.x, point.y>>

curve_n == Curve.order

to_scalar(k) == k % curve_n

generate_mul(k) == mul_by_generator(to_scalar(k))

(***************************************************************************)
(* crypto::mta::proofs: ProofBob and ProofBobWC.                           *)
(***************************************************************************)
NonePoint == [some |-> FALSE, val |-> identity]

SomePoint(point) == [some |-> TRUE, val |-> point]

(* The challenge e of create and of verify_with_wc: the point X and the    *)
(* commitment u enter the hash only in the variant with check.             *)
ProofBob_e(param, xu, u, z, z_prm, t, v, w) ==
    LET n == param.pk
        list == IF xu.some
                THEN LET xp == point_xy(xu.val)
                         up == point_xy(u)
                     IN  <<n, n + 1, xp[1], xp[2], param.c1, param.c2, up[1], up[2],
                           z, z_prm, t, v, w>>
                ELSE <<n, n + 1, param.c1, param.c2, z, z_prm, t, v, w>>
        hash == hash_sha512_256i_tagged(param.session, list)
    IN  rejection_sample(curve_n, hash)

(* ProofBobWC::create with the values rnd that were sampled.               *)
ProofBobWC_create(param, xy, r, point, rnd) ==
    LET h1 == param.n_tilde.v1
        h2 == param.n_tilde.v2
        c1 == param.c1
        n_tilde == param.n_tilde.n
        n == param.pk
        n2 == pow(n, 2)
        x == xy[1]
        y == xy[2]
        u == generate_mul(rnd.alpha)
        z == ModInt_mul(n_tilde, ModInt_pow(n_tilde, h1, x),
                        ModInt_pow(n_tilde, h2, rnd.rho))
        z_prm == ModInt_mul(n_tilde, ModInt_pow(n_tilde, h1, rnd.alpha),
                            ModInt_pow(n_tilde, h2, rnd.rho_prm))
        t == ModInt_mul(n_tilde, ModInt_pow(n_tilde, h1, y),
                        ModInt_pow(n_tilde, h2, rnd.sigma))
        pk_gamma == n + 1
        v == LET a == ModInt_pow(n2, c1, rnd.alpha)
                 b == ModInt_pow(n2, pk_gamma, rnd.gamma)
                 c == ModInt_pow(n2, rnd.beta, n)
             IN  ModInt_mul(n2, ModInt_mul(n2, a, b), c)
        w == ModInt_mul(n_tilde, ModInt_pow(n_tilde, h1, rnd.gamma),
                        ModInt_pow(n_tilde, h2, rnd.tau))
        e == ProofBob_e(param, point, u, z, z_prm, t, v, w)
        s == ModInt_mul(n, ModInt_pow(n, r, e), rnd.beta)
        bob == [z |-> z, z_prm |-> z_prm, t |-> t, v |-> v, w |-> w, s |-> s,
                s1 |-> e * x + rnd.alpha,
                s2 |-> e * rnd.rho + rnd.rho_prm,
                t1 |-> e * y + rnd.gamma,
                t2 |-> e * rnd.sigma + rnd.tau]
    IN  [bob |-> bob, u |-> u]

(* verify_with_wc after its range checks: the challenge and checks 4 to 7. *)
ProofBob_verify_equalities(proof, param, xu) ==
    LET h1 == param.n_tilde.v1
        h2 == param.n_tilde.v2
        c1 == param.c1
        c2 == param.c2
        n_tilde == param.n_tilde.n
        n == param.pk
        n2 == pow(n, 2)
        e == ProofBob_e(param, IF xu.some THEN SomePoint(xu.x) ELSE NonePoint, xu.u,
                        proof.z, proof.z_prm, proof.t, proof.v, proof.w)
    IN  IF xu.some /\ mul_by_generator(to_scalar(proof.s1))
                        # point_add(point_mul(xu.x, to_scalar(e)), xu.u)
        THEN FALSE
        ELSE IF ModInt_mul(n_tilde, ModInt_pow(n_tilde, h1, proof.s1),
                           ModInt_pow(n_tilde, h2, proof.s2))
                  # ModInt_mul(n_tilde, ModInt_pow(n_tilde, proof.z, e), proof.z_prm)
        THEN FALSE
        ELSE IF ModInt_mul(n_tilde, ModInt_pow(n_tilde, h1, proof.t1),
                           ModInt_pow(n_tilde, h2, proof.t2))
                  # ModInt_mul(n_tilde, ModInt_pow(n_tilde, proof.t, e), proof.w)
        THEN FALSE
        ELSE LET left == ModInt_mul(n2,
                             ModInt_mul(n2, ModInt_pow(n2, c1, proof.s1),
                                        ModInt_pow(n2, proof.s, n)),
                             ModInt_pow(n2, n + 1, proof.t1))
                 right == ModInt_mul(n2, ModInt_pow(n2, c2, e), proof.v)
             IN  left = right

(* The first two checks of verify_with_wc: a < b and gcd(a, b) = 1.        *)
ProofBob_verify_group_checks(proof, param) ==
    LET n_tilde == param.n_tilde.n
        n == param.pk
        n2 == pow(n, 2)
    IN  IF \E ab \in {<<proof.z, n_tilde>>, <<proof.z_prm, n_tilde>>, <<proof.t, n_tilde>>,
                      <<proof.v, n2>>, <<proof.w, n_tilde>>, <<proof.s, n>>} :
              ab[1] >= ab[2]
        THEN FALSE
        ELSE IF \E ab \in {<<proof.z, n_tilde>>, <<proof.z_prm, n_tilde>>,
                           <<proof.t, n_tilde>>, <<proof.v, n2>>, <<proof.w, n_tilde>>,
                           <<proof.s, n>>, <<proof.v, n>>} :
                   gcd(ab[1], ab[2]) # 1
        THEN FALSE
        ELSE TRUE

ProofBob_verify_with_wc_no_lower_bound(proof, param, xu) ==
    LET q == curve_n
        q3 == pow(q, 3)
        q7 == pow(q3, 2) * q
    IN  IF ~ProofBob_verify_group_checks(proof, param) THEN FALSE
        ELSE IF proof.s1 > q3 THEN FALSE
        ELSE IF proof.t1 > q7 THEN FALSE
        ELSE ProofBob_verify_equalities(proof, param, xu)

ProofBob_verify_with_wc(proof, param, xu) ==
    LET q == curve_n
        q3 == pow(q, 3)
        q7 == pow(q3, 2) * q
    IN  IF ~ProofBob_verify_group_checks(proof, param) THEN FALSE
        ELSE IF \E a \in {proof.s1, proof.s2, proof.t1, proof.t2} : a < q THEN FALSE
        ELSE IF proof.s1 > q3 THEN FALSE
        ELSE IF proof.t1 > q7 THEN FALSE
        ELSE ProofBob_verify_equalities(proof, param, xu)

NoneXU == [some |-> FALSE, x |-> identity, u |-> identity]

SomeXU(x, u) == [some |-> TRUE, x |-> x, u |-> u]

ProofBob_new(param, xy, r, rnd) == ProofBobWC_create(param, xy, r, NonePoint, rnd).bob

ProofBob_verify(proof, param) == ProofBob_verify_with_wc(proof, param, NoneXU)

ProofBobWC_new(param, xy, r, point, rnd) ==
    ProofBobWC_create(param, xy, r, SomePoint(point), rnd)

ProofBobWC_verify(proofwc, param, x) ==
    ProofBob_verify_with_wc(proofwc.bob, param, SomeXU(x, proofwc.u))

(* The values sampled by create, below the ceilings the code computes.     *)
ProofBob_ceilings(param) ==
    LET q == curve_n
        q3 == pow(q, 3)
        q7 == pow(q3, 2) * q
    IN  [q3 |-> q3, q7 |-> q7, q_n_tilde |-> q * param.n_tilde.n,
         q3_n_tilde |-> q3 * param.n_tilde.n]

BobSessions == {<<>>, <<7>>}

NoProofBob ==
    [z |-> 0, z_prm |-> 0, t |-> 0, v |-> 0, w |-> 0, s |-> 0,
     s1 |-> 0, s2 |-> 0, t1 |-> 0, t2 |-> 0]

(* A valid MtA parameter set: c1 an encryption under pk, c2 the            *)
(* homomorphic x * c1 + Enc(y; r), and the point x * G.                     *)
InitBobProof ==
    /\ \E session \in BobSessions, sk \in PaillierKeys, nt \in FacNTildeis,
          x \in {0, 1, curve_n - 1} :
          \E y \in {1, sk.n - 1}, r \in {2} :
             LET pk == sk.n
                 c1 == PublicKey_encrypt(pk, pk - 1, 2).cypher
                 ct == PublicKey_encrypt(pk, y, r)
                 c2 == PublicKey_homo_add(pk, PublicKey_homo_mult(pk, x, c1), ct.cypher)
             IN  bobproof = [pc |-> "start",
                             param |-> [session |-> session, pk |-> pk, n_tilde |-> nt,
                                        c1 |-> c1, c2 |-> c2],
                             xy |-> <<x, y>>, r |-> ct.randomness,
                             point |-> generate_mul(x),
                             wc |-> FALSE, bob |-> NoProofBob, u |-> identity,
                             verified |-> FALSE]
    /\ modint = Idle
    /\ paillier = Idle
    /\ safeprime = Idle
    /\ keygen = Idle
    /\ modproof = Idle
    /\ facproof = Idle
    /\ dlnproof = Idle
    /\ paiproof = Idle
    /\ random = Idle
    /\ secrets = Idle
    /\ dlnwire = Idle
    /\ proofwire = Idle
    /\ verifyany = Idle
    /\ ntildei = Idle
    /\ hashing = Idle
    /\ ecpoint = Idle
    /\ fanout = Idle

BobSamples ==
    LET c == ProofBob_ceilings(bobproof.param)
    IN  {rnd \in [alpha : gen_biguint_below_sample(c.q3),
                  rho : gen_biguint_below_ends(c.q_n_tilde),
                  sigma : gen_biguint_below_ends(c.q_n_tilde),
                  tau : gen_biguint_below_ends(c.q3_n_tilde),
                  rho_prm : gen_biguint_below_ends(c.q3_n_tilde),
                  beta : {1, bobproof.param.pk - 1},
                  gamma : gen_biguint_below_sample(c.q7)] :
            is_number_in_multiplicative_group(bobproof.param.pk, rnd.beta)}

ProofBobNew ==
    /\ bobproof.pc = "start"
    /\ \E rnd \in BobSamples :
          bobproof' = [bobproof EXCEPT
              !.pc = "proved", !.wc = FALSE,
              !.bob = ProofBob_new(bobproof.param, bobproof.xy, bobproof.r, rnd)]
    /\ UNCHANGED <<modint, paillier, safeprime, keygen, modproof, facproof, dlnproof, paiproof, random, secrets, dlnwire, proofwire, verifyany, ntildei, hashing, ecpoint, fanout>>

ProofBobWCNew ==
    /\ bobproof.pc = "start"
    /\ \E rnd \in BobSamples :
          LET proofwc == ProofBobWC_new(bobproof.param, bobproof.xy, bobproof.r,
                                        bobproof.point, rnd)
          IN  bobproof' = [bobproof EXCEPT
                  !.pc = "proved", !.wc = TRUE, !.bob = proofwc.bob, !.u = proofwc.u]
    /\ UNCHANGED <<modint, paillier, safeprime, keygen, modproof, facproof, dlnproof, paiproof, random, secrets, dlnwire, proofwire, verifyany, ntildei, hashing, ecpoint, fanout>>

ProofBobVerify ==
    /\ bobproof.pc = "proved"
    /\ ~bobproof.wc
    /\ bobproof' = [bobproof EXCEPT
           !.pc = "verified",
           !.verified = ProofBob_verify(bobproof.bob, bobproof.param)]
    /\ UNCHANGED <<modint, paillier, safeprime, keygen, modproof, facproof, dlnproof, paiproof, random, secrets, dlnwire, proofwire, verifyany, ntildei, hashing, ecpoint, fanout>>

ProofBobWCVerify ==
    /\ bobproof.pc = "proved"
    /\ bobproof.wc
    /\ bobproof' = [bobproof EXCEPT
           !.pc = "verified",
           !.verified = ProofBobWC_verify([bob |-> bobproof.bob, u |-> bobproof.u],
                                          bobproof.param, bobproof.point)]
    /\ UNCHANGED <<modint, paillier, safeprime, keygen, modproof, facproof, dlnproof, paiproof, random, secrets, dlnwire, proofwire, verifyany, ntildei, hashing, ecpoint, fanout>>

NextBobProof == ProofBobNew \/ ProofBobWCNew \/ ProofBobVerify \/ ProofBobWCVerify

SpecBobProof == InitBobProof /\ [][NextBobProof]_vars

BobResponsesInRange ==
    LET q == curve_n
        bob == bobproof.bob
    IN  /\ q <= bob.s1 /\ bob.s1 <= pow(q, 3)
        /\ q <= bob.s2
        /\ q <= bob.t1 /\ bob.t1 <= pow(q, 7)
        /\ q <= bob.t2

(* C7 as stated: ProofBob::verify returns true on every proof of           *)
(* ProofBob::new and ProofBobWC::verify(param, X) on every proof of        *)
(* ProofBobWC::new, for every choice of the sampled blinding values.       *)
C7_VerifyAcceptsNew ==
    bobproof.pc = "verified" => bobproof.verified

(* C7, amended: on a valid MtA parameter set ProofBob::verify and          *)
(* ProofBobWC::verify(param, X) return true on a proof of ProofBob::new,   *)
(* ProofBobWC::new exactly when the responses are in the ranges the        *)
(* verifier requires: q <= s1 <= q^3, q <= s2, q <= t1 <= q^7, q <= t2.    *)
(* They return false on the honest proofs whose sampled alpha, rho_prm,    *)
(* gamma or tau is so small, or whose alpha or gamma is so near the top of *)
(* its range, that a response falls outside.                               *)
C7_VerifyAcceptsInRange ==
    bobproof.pc = "verified" => (bobproof.verified <=> BobResponsesInRange)

C7_Witness ==
    /\ bobproof.pc = "verified"
    /\ bobproof.wc
    /\ bobproof.verified
    /\ ~bobproof.point.inf
    /\ ~bobproof.u.inf
    /\ bobproof.xy[1] > 1
    /\ ProofBob_e(bobproof.param, SomePoint(bobproof.point), bobproof.u,
                  bobproof.bob.z, bobproof.bob.z_prm, bobproof.bob.t,
                  bobproof.bob.v, bobproof.bob.w) > 1

C7_WitnessNoCheck ==
    /\ bobproof.pc = "verified"
    /\ ~bobproof.wc
    /\ bobproof.verified
    /\ bobproof.xy[1] > 0
    /\ ProofBob_e(bobproof.param, NonePoint, bobproof.u,
                  bobproof.bob.z, bobproof.bob.z_prm, bobproof.bob.t,
                  bobproof.bob.v, bobproof.bob.w) > 1

(***************************************************************************)
(* crypto::proof: the discrete-logarithm proof of the Pedersen parameters. *)
(***************************************************************************)
Iterations_LENGTH == 3

(* Proof::new with the values randoms that gen_random sampled.             *)
(* Iterations::generate and convert give the index i - 1 to the value at   *)
(* position i of a sequence.                                               *)
Proof_new(h1, h2, x, p, q, n, randoms) ==
    LET pq == p * q
        alpha == [i \in 1..Iterations_LENGTH |-> ModInt_pow(n, h1, randoms[i])]
        msg == <<h1, h2, n>> \o alpha
        c == hash_sha512_256i(msg)
        hash_bits == from_bytes_be(c)
        t == [i \in 1..Iterations_LENGTH |->
                 IF bit(hash_bits, i - 1) THEN randoms[i]
                 ELSE ModInt_add(pq, randoms[i], x)]
    IN  [alpha |-> alpha, t |-> t]

(* Pedersen parameters: n = (2p + 1)(2q + 1), h1 of order p * q mod n.     *)
DlnParameters == {[p |-> 3, q |-> 5, n |-> 77, h1 |-> 4], [p |-> 2, q |-> 3, n |-> 35, h1 |-> 9]}

NoDlnProof == [alpha |-> <<>>, t |-> <<>>]

InitDlnProof ==
    /\ \E d \in DlnParameters :
          \E x \in 1..(d.p * d.q - 1) :
             dlnproof = [pc |-> "start", h1 |-> d.h1, h2 |-> ModInt_pow(d.n, d.h1, x),
                         x |-> x, p |-> d.p, q |-> d.q, n |-> d.n, proof |-> NoDlnProof]
    /\ modint = Idle
    /\ paillier = Idle
    /\ safeprime = Idle
    /\ keygen = Idle
    /\ modproof = Idle
    /\ facproof = Idle
    /\ bobproof = Idle
    /\ paiproof = Idle
    /\ random = Idle
    /\ secrets = Idle
    /\ dlnwire = Idle
    /\ proofwire = Idle
    /\ verifyany = Idle
    /\ ntildei = Idle
    /\ hashing = Idle
    /\ ecpoint = Idle
    /\ fanout = Idle

DlnProofNew ==
    /\ dlnproof.pc = "start"
    /\ \E randoms \in [1..Iterations_LENGTH -> gen_biguint_below_sample(dlnproof.n)] :
          dlnproof' = [dlnproof EXCEPT
              !.pc = "proved",
              !.proof = Proof_new(dlnproof.h1, dlnproof.h2, dlnproof.x,
                                  dlnproof.p, dlnproof.q, dlnproof.n, randoms)]
    /\ UNCHANGED <<modint, paillier, safeprime, keygen, modproof, facproof, bobproof, paiproof, random, secrets, dlnwire, proofwire, verifyany, ntildei, hashing, ecpoint, fanout>>

NextDlnProof == DlnProofNew

SpecDlnProof == InitDlnProof /\ [][NextDlnProof]_vars

(* The challenge of a proof: the hash of (h1, h2, n, alpha_1 .. alpha_k).  *)
DlnChallenge ==
    from_bytes_be(hash_sha512_256i(
        <<dlnproof.h1, dlnproof.h2, dlnproof.n>> \o dlnproof.proof.alpha))

(* C8: for Pedersen parameters with h2 = h1^x mod n and p*q the order of   *)
(* h1, every proof of Proof::new satisfies, for each repetition i,         *)
(* h1^{t_i} = alpha_i * h2^{bit_i} (mod n), bit_i being bit i of the       *)
(* challenge hash of (h1, h2, n, alpha).                                   *)
C8_DlnEquation ==
    dlnproof.pc = "proved" =>
        \A i \in 0..(Iterations_LENGTH - 1) :
            ModInt_pow(dlnproof.n, dlnproof.h1, dlnproof.proof.t[i + 1])
                = ModInt_mul(dlnproof.n, dlnproof.proof.alpha[i + 1],
                      ModInt_pow(dlnproof.n, dlnproof.h2,
                                 IF bit(DlnChallenge, i) THEN 1 ELSE 0))

(* What the code's proofs satisfy instead: the equation with the bit       *)
(* complemented, in every repetition.                                      *)
C8_DlnEquationComplemented ==
    dlnproof.pc = "proved" =>
        \A i \in 0..(Iterations_LENGTH - 1) :
            ModInt_pow(dlnproof.n, dlnproof.h1, dlnproof.proof.t[i + 1])
                = ModInt_mul(dlnproof.n, dlnproof.proof.alpha[i + 1],
                      ModInt_pow(dlnproof.n, dlnproof.h2,
                                 IF bit(DlnChallenge, i) THEN 0 ELSE 1))
(***************************************************************************)
(* crypto::paillier::Proof: the proof that the Paillier modulus is valid.  *)
(***************************************************************************)
Proof_ITERATION == 13

(* usize::to_string().as_bytes(): the decimal digits in ASCII.             *)
RECURSIVE to_bs(_)
to_bs(i) == IF i < 10 THEN <<48 + i>> ELSE Append(to_bs(i \div 10), 48 + (i % 10))

(* The bytes of one trial: the digests of the blocks, in order.            *)
RECURSIVE generate_xs_blocks(_, _, _, _)
generate_xs_blocks(c, ib, tb, j) ==
    IF j = c.blocks THEN <<>>
    ELSE LET jb == to_bs(j)
             hash == hash_sha512_256(<<ib, jb, tb, c.kb, c.xb, c.yb, c.nb>>)
         IN  hash \o generate_xs_blocks(c, ib, tb, j + 1)

(* find_map over (t..): the first trial whose value is in the group, with  *)
(* the trial counter it leaves in t.                                       *)
RECURSIVE generate_xs_find_map(_, _, _)
generate_xs_find_map(c, i, ti) ==
    LET ib == to_bs(i)
        tb == to_bs(ti)
        bs == generate_xs_blocks(c, ib, tb, 0)
        x == from_bytes_be(bs)
    IN  IF is_number_in_multiplicative_group(c.n, x) THEN [x |-> x, t |-> ti]
        ELSE generate_xs_find_map(c, i, ti + 1)

RECURSIVE generate_xs_map(_, _, _)
generate_xs_map(c, i, t) ==
    IF i = Proof_ITERATION THEN <<>>
    ELSE LET found == generate_xs_find_map(c, i, t)
         IN  <<found>> \o generate_xs_map(c, i + 1, found.t)

(* The number of digests that cover the bits of n.                         *)
Proof_blocks(n) ==
    LET digest_bits == 8 * Hash256_LEN
    IN  (bits(n) + digest_bits - 1) \div digest_bits

(* generate_xs_by_xy with the trial counter of each index kept.            *)
Proof_generate_xs_trials(n, k, xb, yb) ==
    LET kb == to_bytes_be(k)
        nb == to_bytes_be(n)
        blocks == Proof_blocks(n)
    IN  generate_xs_map([n |-> n, kb |-> kb, nb |-> nb, xb |-> xb, yb |-> yb,
                         blocks |-> blocks], 0, 0)

Proof_generate_xs_by_xy(n, k, xb, yb) ==
    LET found == Proof_generate_xs_trials(n, k, xb, yb)
    IN  [i \in 1..Len(found) |-> found[i].x]

Proof_generate_xs(n, k, point) ==
    LET xy == point_xy(point)
    IN  Proof_generate_xs_by_xy(n, k, to_bytes_be(xy[1]), to_bytes_be(xy[2]))

PaillierProof_new_without_inverse(key, k, point) == Proof_generate_xs(key.n, k, point)

PaillierProof_new(key, k, point) ==
    LET xs == Proof_generate_xs(key.n, k, point)
    IN  [i \in 1..Len(xs) |->
            LET m == invm(key.n, key.phi_n).val
            IN  powm(xs[i], m, key.n)]

PaillierProof_verify(proof, n, k, point) ==
    LET xs == Proof_generate_xs(n, k, point)
    IN  \A i \in 1..Len(proof) :
           LET a == xs[i] % n
               b == powm(proof[i], n, n)
           IN  a = b

(* Keys with gcd(n, phi(n)) = 1, of one block and of two blocks. As a      *)
(* modulus of 2048 bits fills its eight digests, the keys kept are those   *)
(* that fill their digests to within two bits, so that a trial succeeds    *)
(* with a probability of the order it has for a generated key.             *)
ProofKeys ==
    {key \in {PrivateKey_new(7, 5), PrivateKey_new(19, 13), PrivateKey_new(211, 199)} :
        8 * Hash256_LEN * Proof_blocks(key.n) - bits(key.n) <= 2}

ProofScalars == {0, 6, 300}

ProofPoints == {generate_mul(j) : j \in 0..(curve_n - 1)}

InitPaiProof ==
    /\ paiproof \in [pc : {"start"}, key : ProofKeys, k : ProofScalars,
                     point : ProofPoints, proof : {<<>>}, verified : {FALSE}]
    /\ modint = Idle
    /\ paillier = Idle
    /\ safeprime = Idle
    /\ keygen = Idle
    /\ modproof = Idle
    /\ facproof = Idle
    /\ bobproof = Idle
    /\ dlnproof = Idle
    /\ random = Idle
    /\ secrets = Idle
    /\ dlnwire = Idle
    /\ proofwire = Idle
    /\ verifyany = Idle
    /\ ntildei = Idle
    /\ hashing = Idle
    /\ ecpoint = Idle
    /\ fanout = Idle

PaillierProofNew ==
    /\ paiproof.pc = "start"
    /\ paiproof' = [paiproof EXCEPT
           !.pc = "proved",
           !.proof = PaillierProof_new(paiproof.key, paiproof.k, paiproof.point)]
    /\ UNCHANGED <<modint, paillier, safeprime, keygen, modproof, facproof, bobproof, dlnproof, random, secrets, dlnwire, proofwire, verifyany, ntildei, hashing, ecpoint, fanout>>

PaillierProofVerify ==
    /\ paiproof.pc = "proved"
    /\ paiproof' = [paiproof EXCEPT
           !.pc = "verified",
           !.verified = PaillierProof_verify(paiproof.proof, paiproof.key.n,
                                             paiproof.k, paiproof.point)]
    /\ UNCHANGED <<modint, paillier, safeprime, keygen, modproof, facproof, bobproof, dlnproof, random, secrets, dlnwire, proofwire, verifyany, ntildei, hashing, ecpoint, fanout>>

NextPaiProof == PaillierProofNew \/ PaillierProofVerify

SpecPaiProof == InitPaiProof /\ [][NextPaiProof]_vars

PaiProofTrials ==
    LET xy == point_xy(paiproof.point)
    IN  Proof_generate_xs_trials(paiproof.key.n, paiproof.k,
                                 to_bytes_be(xy[1]), to_bytes_be(xy[2]))

(* C9: for a Paillier key with gcd(n, phi(n)) = 1, every scalar k and      *)
(* curve point, Proof::verify(pk, k, point) returns true on                *)
(* Proof::new(sk, k, point): there are 13 derived values x_i, each in the  *)
(* multiplicative group mod n, the trial counter never decreases across    *)
(* the indexes, and each response y_i satisfies y_i^n mod n = x_i.         *)
C9_ProofVerifies ==
    /\ paiproof.pc \in {"proved", "verified"} =>
          LET found == PaiProofTrials
              n == paiproof.key.n
          IN  /\ Len(found) = 13
              /\ Len(paiproof.proof) = 13
              /\ \A i \in 1..13 :
                    /\ is_number_in_multiplicative_group(n, found[i].x)
                    /\ PowModHalving(paiproof.proof[i], n, n) = found[i].x
              /\ found[1].t >= 0
              /\ \A i \in 1..12 : found[i].t <= found[i + 1].t
    /\ paiproof.pc = "verified" => paiproof.verified

C9_Witness ==
    /\ paiproof.pc = "verified"
    /\ paiproof.verified
    /\ ~paiproof.point.inf
    /\ paiproof.k > 0
    /\ bits(paiproof.key.n) > 8 * Hash256_LEN
    /\ LET found == PaiProofTrials
       IN  /\ found[1].t > 0
           /\ \E i \in 1..12 : found[i].t = found[i + 1].t
           /\ \E i \in 1..12 : found[i].t + 1 < found[i + 1].t
           /\ \E i \in 1..13 : paiproof.proof[i] # found[i].x
(***************************************************************************)
(* common::random with its error paths. The bit-length limit is 5000, so   *)
(* the integers of get_random_int and get_random_positive_int are written  *)
(* as 2^e + d (e >= 0, 0 <= d < 2^e), or zero: their bit length is e + 1   *)
(* and their order is that of the pairs (e, d).                            *)
(***************************************************************************)
BigZero == [e |-> -1, d |-> 0]

BigPow2Plus(e, d) == [e |-> e, d |-> d]

BigUint_bits(v) == v.e + 1

BigUint_lt(a, b) == a.e < b.e \/ (a.e = b.e /\ a.d < b.d)

(* The integers of this form that are drawn and given as arguments: small  *)
(* ones, and ones around the limit.                                        *)
BigUints ==
    {BigZero}
    \cup {v \in [e : 0..2, d : 0..3] : v.d < pow2(v.e)}
    \cup {BigPow2Plus(e, d) : e \in (RANDOM_BITS_MAX - 2)..(RANDOM_BITS_MAX + 1), d \in {0, 1}}

(* rng.gen_biguint(bits): any integer below 2^bits. *)
gen_biguint(nbits) == {v \in BigUints : BigUint_bits(v) <= nbits}

(* rng.gen_biguint_below(ceiling): any integer below the ceiling. *)
gen_biguint_below(ceiling) == {v \in BigUints : BigUint_lt(v, ceiling)}

(* An outcome of a sampler: its result and the number of draws it made. *)
RandomOutcome(res, samples) == [res |-> res, samples |-> samples]

get_random_int_result(nbits) ==
    IF ~check_bits_range(nbits)
    THEN {RandomOutcome(Err("out_of_range"), 0)}
    ELSE {RandomOutcome(Ok(v), 1) : v \in gen_biguint(nbits)}

get_random_positive_int_result(ceiling) ==
    IF ~check_bits_range(BigUint_bits(ceiling))
    THEN {RandomOutcome(Err("out_of_range"), 0)}
    ELSE {RandomOutcome(Ok(v), 1) : v \in gen_biguint_below(ceiling)}

MaxRandomModulus == 15

MaxSamples == 4

RandomBitsArgs ==
    {0, 1, 2, 3, RANDOM_BITS_MAX - 1, RANDOM_BITS_MAX, RANDOM_BITS_MAX + 1, RANDOM_BITS_MAX + 2}

RandomCall(fn, nbits, ceiling, modulus) ==
    [pc |-> "call", fn |-> fn, nbits |-> nbits, ceiling |-> ceiling, modulus |-> modulus,
     r |-> 0, samples |-> 0, turn |-> FALSE, res |-> Err("none")]

InitRandom ==
    /\ random \in
         {RandomCall("get_random_int", nbits, BigZero, 0) : nbits \in RandomBitsArgs}
         \cup {RandomCall("get_random_positive_int", 0, ceiling, 0) : ceiling \in BigUints}
         \cup {RandomCall(fn, 0, BigZero, modulus) :
                 fn \in {"get_random_positive_relatively_prime_int",
                         "get_random_quadratic_non_residue"},
                 modulus \in 0..MaxRandomModulus}
    /\ modint = Idle
    /\ paillier = Idle
    /\ safeprime = Idle
    /\ keygen = Idle
    /\ modproof = Idle
    /\ facproof = Idle
    /\ bobproof = Idle
    /\ dlnproof = Idle
    /\ paiproof = Idle
    /\ secrets = Idle
    /\ dlnwire = Idle
    /\ proofwire = Idle
    /\ verifyany = Idle
    /\ ntildei = Idle
    /\ hashing = Idle
    /\ ecpoint = Idle
    /\ fanout = Idle

RandomReturn(o) ==
    /\ random' = [random EXCEPT !.pc = "done", !.res = o.res,
                                !.samples = random.samples + o.samples]
    /\ UNCHANGED <<modint, paillier, safeprime, keygen, modproof, facproof, bobproof, dlnproof, paiproof, secrets, dlnwire, proofwire, verifyany, ntildei, hashing, ecpoint, fanout>>

RandomGetRandomInt ==
    /\ random.pc = "call"
    /\ random.fn = "get_random_int"
    /\ \E o \in get_random_int_result(random.nbits) : RandomReturn(o)

RandomGetRandomPositiveInt ==
    /\ random.pc = "call"
    /\ random.fn = "get_random_positive_int"
    /\ \E o \in get_random_positive_int_result(random.ceiling) : RandomReturn(o)

(* get_random_positive_int(modulus)? inside a resampling loop: the error   *)
(* ends the call, a drawn value becomes r.                                 *)
RandomResample ==
    IF ~check_bits_range(bits(random.modulus))
    THEN RandomReturn(RandomOutcome(Err("out_of_range"), 0))
    ELSE /\ random.samples < MaxSamples
         /\ \E v \in get_random_positive_int(random.modulus) :
              random' = [random EXCEPT !.r = v, !.samples = random.samples + 1]
         /\ UNCHANGED <<modint, paillier, safeprime, keygen, modproof, facproof, bobproof, dlnproof, paiproof, secrets, dlnwire, proofwire, verifyany, ntildei, hashing, ecpoint, fanout>>

RandomEnterLoop ==
    /\ random' = [random EXCEPT !.pc = "loop", !.r = 0]
    /\ UNCHANGED <<modint, paillier, safeprime, keygen, modproof, facproof, bobproof, dlnproof, paiproof, secrets, dlnwire, proofwire, verifyany, ntildei, hashing, ecpoint, fanout>>

relatively_prime_resamples_zero_only(modulus, r) == r = 0

(* The loop condition of get_random_positive_relatively_prime_int. *)
relatively_prime_resamples(modulus, r) ==
    r = 0 \/ ~is_number_in_multiplicative_group(modulus, r)

RandomRelativelyPrimeCall ==
    /\ random.pc = "call"
    /\ random.fn = "get_random_positive_relatively_prime_int"
    /\ IF random.modulus = 0
       THEN RandomReturn(RandomOutcome(Err("invalid_argument: modulus must not be zero"), 0))
       ELSE RandomEnterLoop

RandomRelativelyPrimeSample ==
    /\ random.pc = "loop"
    /\ random.fn = "get_random_positive_relatively_prime_int"
    /\ relatively_prime_resamples(random.modulus, random.r)
    /\ RandomResample

RandomRelativelyPrimeReturn ==
    /\ random.pc = "loop"
    /\ random.fn = "get_random_positive_relatively_prime_int"
    /\ ~relatively_prime_resamples(random.modulus, random.r)
    /\ RandomReturn(RandomOutcome(Ok(random.r), 0))

non_residue_resamples_positive_only(modulus, r) == r = 0 \/ jacobi(r, modulus) > 0

(* The loop condition of get_random_quadratic_non_residue. *)
non_residue_resamples(modulus, r) == r = 0 \/ jacobi(r, modulus) >= 0

RandomNonResidueCall ==
    /\ random.pc = "call"
    /\ random.fn = "get_random_quadratic_non_residue"
    /\ IF random.modulus % 2 = 0
       THEN RandomReturn(RandomOutcome(Err("invalid_argument: modulus must be odd"), 0))
       ELSE RandomEnterLoop

RandomNonResidueSample ==
    /\ random.pc = "loop"
    /\ random.fn = "get_random_quadratic_non_residue"
    /\ non_residue_resamples(random.modulus, random.r)
    /\ RandomResample

RandomNonResidueReturn ==
    /\ random.pc = "loop"
    /\ random.fn = "get_random_quadratic_non_residue"
    /\ ~non_residue_resamples(random.modulus, random.r)
    /\ RandomReturn(RandomOutcome(Ok(random.r), 0))

NextRandom ==
    \/ RandomGetRandomInt
    \/ RandomGetRandomPositiveInt
    \/ RandomRelativelyPrimeCall
    \/ RandomRelativelyPrimeSample
    \/ RandomRelativelyPrimeReturn
    \/ RandomNonResidueCall
    \/ RandomNonResidueSample
    \/ RandomNonResidueReturn

SpecRandom == InitRandom /\ [][NextRandom]_vars

(* C15: get_random_int(bits) returns the out-of-range error exactly when   *)
(* bits is outside [1, 5000] and otherwise a value below 2^bits;           *)
(* get_random_positive_int(ceiling) returns the out-of-range error exactly *)
(* when the bit length of the ceiling is outside [1, 5000] (so for the     *)
(* ceiling 0) and otherwise a value below the ceiling; an error is         *)
(* returned before any value is drawn.                                     *)
C15_RandomIntRange ==
    /\ (random.pc = "done" /\ random.fn = "get_random_int") =>
         IF random.nbits < 1 \/ random.nbits > 5000
         THEN random.res = Err("out_of_range") /\ random.samples = 0
         ELSE /\ random.res.ok
              /\ BigUint_bits(random.res.val) <= random.nbits
    /\ (random.pc = "done" /\ random.fn = "get_random_positive_int") =>
         IF BigUint_bits(random.ceiling) < 1 \/ BigUint_bits(random.ceiling) > 5000
         THEN random.res = Err("out_of_range") /\ random.samples = 0
         ELSE /\ random.res.ok
              /\ BigUint_lt(random.res.val, random.ceiling)

C15_Witness ==
    /\ random.pc = "done"
    /\ random.fn = "get_random_positive_int"
    /\ BigUint_bits(random.ceiling) = 5000
    /\ random.res.ok
    /\ BigUint_bits(random.res.val) = 5000

C15_WitnessZeroCeiling ==
    /\ random.pc = "done"
    /\ random.fn = "get_random_positive_int"
    /\ random.ceiling = BigZero
    /\ random.res = Err("out_of_range")

C15_WitnessTooManyBits ==
    /\ random.pc = "done"
    /\ random.fn = "get_random_int"
    /\ random.nbits = 5001
    /\ random.res = Err("out_of_range")

C15_WitnessZeroBits ==
    /\ random.pc = "done"
    /\ random.fn = "get_random_int"
    /\ random.nbits = 0
    /\ random.res = Err("out_of_range")

(* C16: get_random_positive_relatively_prime_int(0) returns the            *)
(* invalid-argument error without drawing a value; for a modulus above 0   *)
(* every value r it returns has 0 < r < modulus and no common divisor with *)
(* the modulus, however many values were drawn.                            *)
C16_RelativelyPrime ==
    (random.pc = "done" /\ random.fn = "get_random_positive_relatively_prime_int") =>
        IF random.modulus = 0
        THEN /\ random.res = Err("invalid_argument: modulus must not be zero")
             /\ random.samples = 0
        ELSE random.res.ok =>
               /\ 0 < random.res.val
               /\ random.res.val < random.modulus
               /\ CoprimeRef(random.res.val, random.modulus)

C16_Witness ==
    /\ random.pc = "done"
    /\ random.fn = "get_random_positive_relatively_prime_int"
    /\ random.modulus = 12
    /\ random.res = Ok(7)
    /\ random.samples = MaxSamples

C16_WitnessZero ==
    /\ random.pc = "done"
    /\ random.fn = "get_random_positive_relatively_prime_int"
    /\ random.modulus = 0
    /\ ~random.res.ok

(* The Legendre symbol of a and the prime p, from the squares modulo p. *)
LegendreRef(a, p) ==
    IF a % p = 0 THEN 0
    ELSE IF \E x \in 1..(p - 1) : (x * x) % p = a % p THEN 1 ELSE -1

(* The Jacobi symbol of a and the odd n, as the product of the Legendre    *)
(* symbols over the prime factors of n.                                    *)
RECURSIVE JacobiRef(_, _)
JacobiRef(a, n) ==
    IF n = 1 THEN 1
    ELSE LET p == CHOOSE d \in 2..n : n % d = 0 /\ \A c \in 2..(d - 1) : n % c # 0
         IN  LegendreRef(a, p) * JacobiRef(a, n \div p)

(* C17: get_random_quadratic_non_residue returns the invalid-argument      *)
(* error "modulus must be odd" for every even modulus, 0 included, without *)
(* drawing a value; for an odd modulus every value r it returns has        *)
(* 0 < r < modulus and the Jacobi symbol -1.                               *)
C17_NonResidue ==
    (random.pc = "done" /\ random.fn = "get_random_quadratic_non_residue") =>
        IF random.modulus % 2 = 0
        THEN /\ random.res = Err("invalid_argument: modulus must be odd")
             /\ random.samples = 0
        ELSE random.res.ok =>
               /\ 0 < random.res.val
               /\ random.res.val < random.modulus
               /\ JacobiRef(random.res.val, random.modulus) = -1

C17_Witness ==
    /\ random.pc = "done"
    /\ random.fn = "get_random_quadratic_non_residue"
    /\ random.modulus = 15
    /\ random.res = Ok(7)
    /\ random.samples = MaxSamples

C17_WitnessEven ==
    /\ random.pc = "done"
    /\ random.fn = "get_random_quadratic_non_residue"
    /\ random.modulus \in {0, 12}
    /\ ~random.res.ok

(***************************************************************************)
(* crypto::commitment: Secrets::build and Secrets::parse.                  *)
(***************************************************************************)
Secrets_PARTS_CAP == 3

(* The largest part; 1 MiB in the source. *)
Secrets_MAX_PART_SIZE == 3

(* flat_map over the Result of each part keeps the Ok vectors and leaves   *)
(* out an Err, so a part above MAX_PART_SIZE adds nothing to the secrets.  *)
RECURSIVE Secrets_build_flat_map(_)
Secrets_build_flat_map(parts) ==
    IF parts = <<>> THEN <<>>
    ELSE LET ps == Head(parts)
             part_len == Len(ps)
         IN  (IF part_len > Secrets_MAX_PART_SIZE THEN <<>> ELSE <<part_len>> \o ps)
             \o Secrets_build_flat_map(Tail(parts))

Secrets_build(parts) ==
    IF Len(parts) > Secrets_PARTS_CAP
    THEN Err("too_many_commitment_parts")
    ELSE Ok(Secrets_build_flat_map(parts))

(* The width of usize; 64 in the source's builds. *)
usize_BITS == 10

(* BigUint::to_usize: None for a value of more than usize::BITS bits. *)
to_usize(v) == IF bits(v) > usize_BITS THEN [some |-> FALSE, val |-> 0]
               ELSE [some |-> TRUE, val |-> v]

RECURSIVE Secrets_parse_loop(_, _)
Secrets_parse_loop(ss, parts) ==
    IF ss = <<>> THEN Ok(parts)
    ELSE IF Len(parts) >= Secrets_PARTS_CAP THEN Err("too_many_commitment_parts")
    ELSE LET first == Head(ss)
             rest == Tail(ss)
             part_len == to_usize(first).val
         IN  IF ~to_usize(first).some THEN Err("secrets_invalid_part_length")
             ELSE IF part_len > Secrets_MAX_PART_SIZE THEN Err("secrets_too_large")
             ELSE IF part_len > Len(rest) THEN Err("secrets_invalid_part_length")
             ELSE Secrets_parse_loop(SubSeq(rest, part_len + 1, Len(rest)),
                                     Append(parts, SubSeq(rest, 1, part_len)))

Secrets_parse_without_minimum(s) == Secrets_parse_loop(s, <<>>)

Secrets_parse(s) ==
    IF Len(s) < 2 THEN Err("secrets_too_few") ELSE Secrets_parse_loop(s, <<>>)

(* The integers of the parts: 0 and 2 are also read as lengths. *)
SecretValues == {0, 2}

SecretParts(maxlen) == UNION {[1..n -> SecretValues] : n \in 0..maxlen}

(* Lists of up to PARTS_CAP parts, each of up to MAX_PART_SIZE integers or *)
(* MAX_PART_SIZE + 1 zeros, and lists of PARTS_CAP + 1 short parts.        *)
SecretPartLists ==
    UNION {[1..n -> SecretParts(Secrets_MAX_PART_SIZE)
                    \cup {[i \in 1..(Secrets_MAX_PART_SIZE + 1) |-> 0]}] :
           n \in 0..Secrets_PARTS_CAP}
    \cup [1..(Secrets_PARTS_CAP + 1) -> SecretParts(1)]

(* The integers of a flat sequence given to parse: lengths within and     *)
(* above the limit, and one that no usize holds.                           *)
SecretFlatValues == {0, 1, 2, Secrets_MAX_PART_SIZE + 1, pow2(usize_BITS)}

MaxFlatLen == 6

SecretFlats == UNION {[1..n -> SecretFlatValues] : n \in 0..MaxFlatLen}

InitSecrets ==
    /\ \/ \E parts \in SecretPartLists :
             secrets = [pc |-> "start", parts |-> parts, input |-> <<>>,
                        built |-> Err("none"), parsed |-> Err("none")]
       \/ \E input \in SecretFlats :
             secrets = [pc |-> "input", parts |-> <<>>, input |-> input,
                        built |-> Err("none"), parsed |-> Err("none")]
    /\ modint = Idle
    /\ paillier = Idle
    /\ safeprime = Idle
    /\ keygen = Idle
    /\ modproof = Idle
    /\ facproof = Idle
    /\ bobproof = Idle
    /\ dlnproof = Idle
    /\ paiproof = Idle
    /\ random = Idle
    /\ dlnwire = Idle
    /\ proofwire = Idle
    /\ verifyany = Idle
    /\ ntildei = Idle
    /\ hashing = Idle
    /\ ecpoint = Idle
    /\ fanout = Idle

SecretsBuild ==
    /\ secrets.pc = "start"
    /\ secrets' = [secrets EXCEPT !.pc = "built", !.built = Secrets_build(secrets.parts)]
    /\ UNCHANGED <<modint, paillier, safeprime, keygen, modproof, facproof, bobproof, dlnproof, paiproof, random, dlnwire, proofwire, verifyany, ntildei, hashing, ecpoint, fanout>>

SecretsParse ==
    /\ secrets.pc = "built"
    /\ secrets.built.ok
    /\ secrets' = [secrets EXCEPT !.pc = "parsed", !.parsed = Secrets_parse(secrets.built.val)]
    /\ UNCHANGED <<modint, paillier, safeprime, keygen, modproof, facproof, bobproof, dlnproof, paiproof, random, dlnwire, proofwire, verifyany, ntildei, hashing, ecpoint, fanout>>

SecretsParseInput ==
    /\ secrets.pc = "input"
    /\ secrets' = [secrets EXCEPT !.pc = "parsedInput",
                                  !.parsed = Secrets_parse(secrets.input)]
    /\ UNCHANGED <<modint, paillier, safeprime, keygen, modproof, facproof, bobproof, dlnproof, paiproof, random, dlnwire, proofwire, verifyany, ntildei, hashing, ecpoint, fanout>>

NextSecrets == SecretsBuild \/ SecretsParse \/ SecretsParseInput

SpecSecrets == InitSecrets /\ [][NextSecrets]_vars

(* The lists of the round trip: at most PARTS_CAP parts of at most         *)
(* MAX_PART_SIZE integers each.                                            *)
SecretsWithinLimits ==
    /\ Len(secrets.parts) <= Secrets_PARTS_CAP
    /\ \A i \in 1..Len(secrets.parts) : Len(secrets.parts[i]) <= Secrets_MAX_PART_SIZE

(* C20: for every list of at most 3 parts of at most MAX_PART_SIZE         *)
(* integers each, empty parts and the empty list included, Secrets::build  *)
(* succeeds and Secrets::parse of the result returns the original list.    *)
C20_RoundTrip ==
    SecretsWithinLimits =>
        /\ secrets.pc = "built" => secrets.built.ok
        /\ secrets.pc = "parsed" => secrets.parsed = Ok(secrets.parts)

(* The round trip for the lists that build into at least two integers. *)
C20_RoundTripTwoIntegers ==
    (SecretsWithinLimits /\ secrets.pc = "parsed") =>
        IF Len(secrets.built.val) >= 2
        THEN secrets.parsed = Ok(secrets.parts)
        ELSE /\ secrets.parts \in {<<>>, << <<>> >>}
             /\ secrets.parsed = Err("secrets_too_few")

C20_WitnessRoundTrip ==
    /\ secrets.pc = "parsed"
    /\ secrets.parts = << <<>>, <<2, 0>>, <<0>> >>
    /\ secrets.parsed = Ok(secrets.parts)

(* The part headers of a flat sequence: from position pos with count parts *)
(* read, the position and count at which reading stops (the end, the part  *)
(* cap, or a length above the limit or above what remains).                *)
RECURSIVE SecretsHeaderWalk(_, _, _)
SecretsHeaderWalk(s, pos, count) ==
    IF \/ pos > Len(s)
       \/ count = Secrets_PARTS_CAP
       \/ s[pos] > Secrets_MAX_PART_SIZE
       \/ s[pos] > Len(s) - pos
    THEN [pos |-> pos, count |-> count]
    ELSE SecretsHeaderWalk(s, pos + s[pos] + 1, count + 1)

(* Each part after its length, one after the other. *)
RECURSIVE SecretsPrefixedConcat(_)
SecretsPrefixedConcat(parts) ==
    IF parts = <<>> THEN <<>>
    ELSE <<Len(Head(parts))>> \o Head(parts) \o SecretsPrefixedConcat(Tail(parts))

SecretsParsedAll(s, r) ==
    /\ r.ok
    /\ Len(r.val) <= 3
    /\ SecretsPrefixedConcat(r.val) = s

(* C21: Secrets::parse fails with secrets-too-few on fewer than 2          *)
(* integers, too-many-commitment-parts when the sequence holds more than 3 *)
(* parts, secrets-too-large when a declared length is above the part       *)
(* limit, secrets-invalid-part-length when a declared length is above the  *)
(* number of remaining integers; when it succeeds it returns at most 3     *)
(* parts whose length-prefixed concatenation is the sequence.              *)
C21_ParseErrors ==
    secrets.pc = "parsedInput" =>
        LET s == secrets.input
            w == SecretsHeaderWalk(s, 1, 0)
            r == secrets.parsed
        IN  /\ r.ok => SecretsParsedAll(s, r)
            /\ IF Len(s) < 2 THEN r = Err("secrets_too_few")
               ELSE IF w.pos > Len(s) THEN r.ok
               ELSE IF w.count = 3 THEN r = Err("too_many_commitment_parts")
               ELSE IF s[w.pos] > Secrets_MAX_PART_SIZE THEN r = Err("secrets_too_large")
               ELSE r = Err("secrets_invalid_part_length")

(* C21 with the declared lengths that no usize holds: for those the error  *)
(* is secrets-invalid-part-length, not secrets-too-large.                  *)
C21_ParseErrorsUsize ==
    secrets.pc = "parsedInput" =>
        LET s == secrets.input
            w == SecretsHeaderWalk(s, 1, 0)
            r == secrets.parsed
        IN  /\ r.ok => SecretsParsedAll(s, r)
            /\ IF Len(s) < 2 THEN r = Err("secrets_too_few")
               ELSE IF w.pos > Len(s) THEN r.ok
               ELSE IF w.count = 3 THEN r = Err("too_many_commitment_parts")
               ELSE IF s[w.pos] >= pow2(usize_BITS) THEN r = Err("secrets_invalid_part_length")
               ELSE IF s[w.pos] > Secrets_MAX_PART_SIZE THEN r = Err("secrets_too_large")
               ELSE r = Err("secrets_invalid_part_length")

C21_Witness ==
    /\ secrets.pc = "parsedInput"
    /\ secrets.parsed.ok
    /\ Len(secrets.parsed.val) = 3
    /\ Len(secrets.parsed.val[1]) = 2
    /\ Len(secrets.input) = MaxFlatLen

C21_WitnessTooMany ==
    /\ secrets.pc = "parsedInput"
    /\ secrets.parsed = Err("too_many_commitment_parts")

C21_WitnessTooLarge ==
    /\ secrets.pc = "parsedInput"
    /\ Len(secrets.input) >= 2
    /\ secrets.parsed = Err("secrets_too_large")

C21_WitnessInvalidLength ==
    /\ secrets.pc = "parsedInput"
    /\ secrets.input = <<2, 0>>
    /\ secrets.parsed = Err("secrets_invalid_part_length")

C21_WitnessNoUsize ==
    /\ secrets.pc = "parsedInput"
    /\ secrets.input[1] = pow2(usize_BITS)
    /\ Len(secrets.input) >= 2
    /\ secrets.parsed = Err("secrets_invalid_part_length")

SecretsSomePartTooLarge ==
    \E i \in 1..Len(secrets.parts) : Len(secrets.parts[i]) > Secrets_MAX_PART_SIZE

(* C22: Secrets::build returns the too-many-commitment-parts error for     *)
(* more than 3 parts and the commitment-part-too-large error when a part   *)
(* is above the part limit; when it returns Ok the result is every given   *)
(* part after its length, in order, with no part left out.                 *)
C22_BuildErrors ==
    secrets.pc = "built" =>
        /\ Len(secrets.parts) > 3 => secrets.built = Err("too_many_commitment_parts")
        /\ (Len(secrets.parts) <= 3 /\ SecretsSomePartTooLarge) =>
              secrets.built = Err("commitment_part_too_large")
        /\ secrets.built.ok => secrets.built.val = SecretsPrefixedConcat(secrets.parts)

(* What build does with a part above the limit: it returns Ok and the      *)
(* result holds the other parts only.                                      *)
C22_BuildLeavesOutLargeParts ==
    secrets.pc = "built" =>
        IF Len(secrets.parts) > 3 THEN secrets.built = Err("too_many_commitment_parts")
        ELSE /\ secrets.built.ok
             /\ secrets.built.val =
                   SecretsPrefixedConcat(
                      SelectSeq(secrets.parts, LAMBDA ps : Len(ps) <= Secrets_MAX_PART_SIZE))

C22_WitnessLeftOut ==
    /\ secrets.pc = "built"
    /\ Len(secrets.parts) = 2
    /\ Len(secrets.parts[1]) = Secrets_MAX_PART_SIZE + 1
    /\ secrets.parts[2] = <<2>>
    /\ secrets.built = Ok(<<1, 2>>)

(***************************************************************************)
(* crypto::proof: Proof::marshal and Proof::unmarshal. A proof is its two  *)
(* groups alpha and t; the wire form is a sequence of byte strings.        *)
(***************************************************************************)
Proof_marshal(proof) ==
    LET secrets_built == Secrets_build(<<proof.alpha, proof.t>>)
    IN  IF ~secrets_built.ok THEN secrets_built
        ELSE Ok([i \in 1..Len(secrets_built.val) |-> to_bytes_be(secrets_built.val[i])])

Proof_unmarshal_to_its_unchecked(b0, b1) == Ok([alpha |-> b0, t |-> b1])

(* to_its: a group has exactly Iterations::LENGTH values. *)
Proof_unmarshal_to_its(b0, b1) ==
    IF Len(b0) # Iterations_LENGTH \/ Len(b1) # Iterations_LENGTH
    THEN Err("dln_proof_invalid_length")
    ELSE Ok([alpha |-> b0, t |-> b1])

Proof_unmarshal(bzs) ==
    LET bis == [i \in 1..Len(bzs) |-> from_bytes_be(bzs[i])]
        parsed == Secrets_parse(bis)
    IN  IF ~parsed.ok THEN parsed
        ELSE IF Len(parsed.val) # 2 THEN Err("dln_proof_invalid_length")
        ELSE Proof_unmarshal_to_its(parsed.val[1], parsed.val[2])

(* The values of the groups: zero, one byte, two bytes. *)
DlnWireValues == {0, 1, 300}

(* The byte strings of an arbitrary input: they decode to 0, 1 and         *)
(* Iterations::LENGTH.                                                     *)
DlnWireBytes == {<<>>, <<1>>, <<0, Iterations_LENGTH>>}

DlnWireInputs == UNION {[1..n -> DlnWireBytes] : n \in 0..(2 * Iterations_LENGTH + 3)}

InitDlnWire ==
    /\ \/ \E alpha \in [1..Iterations_LENGTH -> DlnWireValues],
             t \in [1..Iterations_LENGTH -> DlnWireValues] :
             dlnwire = [pc |-> "proof", origin |-> "proof", proof |-> [alpha |-> alpha, t |-> t],
                        marshalled |-> Err("none"), bzs |-> <<>>, unmarshalled |-> Err("none")]
       \/ \E bzs \in DlnWireInputs :
             dlnwire = [pc |-> "wire", origin |-> "input", proof |-> NoDlnProof,
                        marshalled |-> Err("none"), bzs |-> bzs, unmarshalled |-> Err("none")]
    /\ modint = Idle
    /\ paillier = Idle
    /\ safeprime = Idle
    /\ keygen = Idle
    /\ modproof = Idle
    /\ facproof = Idle
    /\ bobproof = Idle
    /\ dlnproof = Idle
    /\ paiproof = Idle
    /\ random = Idle
    /\ secrets = Idle
    /\ proofwire = Idle
    /\ verifyany = Idle
    /\ ntildei = Idle
    /\ hashing = Idle
    /\ ecpoint = Idle
    /\ fanout = Idle

DlnWireMarshal ==
    /\ dlnwire.pc = "proof"
    /\ LET r == Proof_marshal(dlnwire.proof)
       IN  dlnwire' = [dlnwire EXCEPT !.pc = IF r.ok THEN "wire" ELSE "failed",
                                      !.marshalled = r,
                                      !.bzs = IF r.ok THEN r.val ELSE <<>>]
    /\ UNCHANGED <<modint, paillier, safeprime, keygen, modproof, facproof, bobproof, dlnproof, paiproof, random, secrets, proofwire, verifyany, ntildei, hashing, ecpoint, fanout>>

DlnWireUnmarshal ==
    /\ dlnwire.pc = "wire"
    /\ dlnwire' = [dlnwire EXCEPT !.pc = "unmarshalled",
                                  !.unmarshalled = Proof_unmarshal(dlnwire.bzs)]
    /\ UNCHANGED <<modint, paillier, safeprime, keygen, modproof, facproof, bobproof, dlnproof, paiproof, random, secrets, proofwire, verifyany, ntildei, hashing, ecpoint, fanout>>

NextDlnWire == DlnWireMarshal \/ DlnWireUnmarshal

SpecDlnWire == InitDlnWire /\ [][NextDlnWire]_vars

(* The input is two groups of Iterations::LENGTH integers, each after its  *)
(* length.                                                                 *)
DlnWireTwoGroups(bzs) ==
    /\ Len(bzs) = 2 * Iterations_LENGTH + 2
    /\ from_bytes_be(bzs[1]) = Iterations_LENGTH
    /\ from_bytes_be(bzs[Iterations_LENGTH + 2]) = Iterations_LENGTH

(* C18: for every DLN proof (two groups alpha and t of Iterations::LENGTH  *)
(* integers, zeros included) unmarshal(marshal(p)) = p, and unmarshal      *)
(* returns an error (DLN invalid length or a Secrets parse error) for      *)
(* every input that is not two parts of exactly Iterations::LENGTH         *)
(* integers each.                                                          *)
C18_MarshalRoundTrip ==
    /\ dlnwire.pc # "failed"
    /\ (dlnwire.pc = "unmarshalled" /\ dlnwire.origin = "proof") =>
          dlnwire.unmarshalled = Ok(dlnwire.proof)
    /\ (dlnwire.pc = "unmarshalled" /\ ~DlnWireTwoGroups(dlnwire.bzs)) =>
          /\ ~dlnwire.unmarshalled.ok
          /\ dlnwire.unmarshalled.err \in
                {"dln_proof_invalid_length", "secrets_too_few", "too_many_commitment_parts",
                 "secrets_too_large", "secrets_invalid_part_length"}

C18_Witness ==
    /\ dlnwire.pc = "unmarshalled"
    /\ dlnwire.origin = "proof"
    /\ \E i \in 1..Iterations_LENGTH : dlnwire.proof.alpha[i] = 0 /\ dlnwire.proof.t[i] = 300
    /\ dlnwire.unmarshalled.ok

C18_WitnessInvalidLength ==
    /\ dlnwire.pc = "unmarshalled"
    /\ dlnwire.origin = "input"
    /\ Len(dlnwire.bzs) = 2 * Iterations_LENGTH + 2
    /\ dlnwire.unmarshalled = Err("dln_proof_invalid_length")

C18_WitnessParseError ==
    /\ dlnwire.pc = "unmarshalled"
    /\ dlnwire.origin = "input"
    /\ dlnwire.unmarshalled = Err("secrets_invalid_part_length")

C18_WitnessInputAccepted ==
    /\ dlnwire.pc = "unmarshalled"
    /\ dlnwire.origin = "input"
    /\ dlnwire.unmarshalled.ok

(***************************************************************************)
(* The byte-string forms of ProofFac (crypto::proof::fac_proof) and        *)
(* ProofMod (crypto::proof::mod_proof).                                    *)
(***************************************************************************)
is_non_empty_all(src_list) ==
    src_list # <<>> /\ \A i \in 1..Len(src_list) : src_list[i] # <<>>

(* The two's complement of a byte string of k bytes: 256^k minus its value, *)
(* in k bytes.                                                             *)
twos_complement_be(digits) ==
    LET k == Len(digits)
    IN  to_be_bytes_n((pow(256, k) - from_bytes_be(digits)) % pow(256, k), k)

(* BigInt::to_signed_bytes_be: the magnitude, with a zero byte in front    *)
(* when its top bit is used (but not for -128, -32768, ...), complemented  *)
(* for a negative value.                                                   *)
BigInt_to_signed_bytes_be(v) ==
    LET magnitude == to_bytes_be(IF v < 0 THEN 0 - v ELSE v)
        first_byte == magnitude[1]
        extended ==
            IF first_byte > 127
               /\ ~(first_byte = 128 /\ v < 0
                    /\ \A i \in 2..Len(magnitude) : magnitude[i] = 0)
            THEN <<0>> \o magnitude
            ELSE magnitude
    IN  IF v < 0 THEN twos_complement_be(extended) ELSE extended

BigInt_from_signed_bytes_be_unsigned(digits) == from_bytes_be(digits)

(* BigInt::from_signed_bytes_be: negative when the top bit is set. *)
BigInt_from_signed_bytes_be(digits) ==
    IF digits = <<>> THEN 0
    ELSE IF digits[1] > 127 THEN 0 - from_bytes_be(twos_complement_be(digits))
    ELSE from_bytes_be(digits)

ProofFac_SIZE == 11

ProofFac_into_bytes(val) ==
    <<to_bytes_be(val.p), to_bytes_be(val.q), to_bytes_be(val.a), to_bytes_be(val.b),
      to_bytes_be(val.t), to_bytes_be(val.sigma), to_bytes_be(val.z1), to_bytes_be(val.z2),
      to_bytes_be(val.w1), to_bytes_be(val.w2), BigInt_to_signed_bytes_be(val.v)>>

ProofFac_try_from(values) ==
    IF ~is_non_empty_all(values) THEN Err("wrong_length_bytes")
    ELSE Ok([p |-> from_bytes_be(values[1]), q |-> from_bytes_be(values[2]),
             a |-> from_bytes_be(values[3]), b |-> from_bytes_be(values[4]),
             t |-> from_bytes_be(values[5]), sigma |-> from_bytes_be(values[6]),
             z1 |-> from_bytes_be(values[7]), z2 |-> from_bytes_be(values[8]),
             w1 |-> from_bytes_be(values[9]), w2 |-> from_bytes_be(values[10]),
             v |-> BigInt_from_signed_bytes_be(values[11])])

ProofMod_SIZE == Iterations_SIZE * 2 + 3

ProofMod_into_bytes(val) ==
    <<to_bytes_be(val.w)>>
    \o [i \in 1..Iterations_SIZE |-> to_bytes_be(val.x[i])]
    \o <<to_bytes_be(val.a), to_bytes_be(val.b)>>
    \o [i \in 1..Iterations_SIZE |-> to_bytes_be(val.z[i])]

(* values[0], values[1..81], values[81], values[82], values[83..163] of    *)
(* the source, counted from 1 and with Iterations::SIZE in place of 80.    *)
ProofMod_try_from(values) ==
    IF ~is_non_empty_all(values) THEN Err("wrong_length_bytes")
    ELSE Ok([w |-> from_bytes_be(values[1]),
             x |-> [i \in 1..Iterations_SIZE |-> from_bytes_be(values[1 + i])],
             a |-> from_bytes_be(values[Iterations_SIZE + 2]),
             b |-> from_bytes_be(values[Iterations_SIZE + 3]),
             z |-> [i \in 1..Iterations_SIZE |->
                      from_bytes_be(values[Iterations_SIZE + 3 + i])]])

(* The unsigned fields: zero, one byte with the top bit set, two bytes. *)
WireUnsigned == {0, 200, 300}

(* The signed response: zero, and both signs around the byte boundaries. *)
WireSigned ==
    {0, 1, -1, 127, -127, 128, -128, 129, -129, 255, -255, 256, -256, 300, -300,
     32767, -32768, 32768, -32769, 65535, -65536}

WireProofFacs ==
    {[p |-> u[1], q |-> u[2], a |-> u[3], b |-> u[1], t |-> u[2], sigma |-> u[3],
      z1 |-> u[2], z2 |-> u[3], w1 |-> u[1], w2 |-> u[4], v |-> v] :
        u \in [1..4 -> WireUnsigned], v \in WireSigned}

WireProofMods ==
    {[w |-> w, x |-> x, a |-> ab[1], b |-> ab[2], z |-> z] :
        w \in WireUnsigned, x \in [1..Iterations_SIZE -> WireUnsigned],
        ab \in {<<200, 300>>, <<0, 200>>}, z \in [1..Iterations_SIZE -> WireUnsigned]}

InitProofWire ==
    /\ \/ \E proof \in WireProofFacs :
             proofwire = [pc |-> "proof", type |-> "ProofFac", proof |-> proof,
                          bytes |-> <<>>, back |-> Err("none")]
       \/ \E proof \in WireProofMods :
             proofwire = [pc |-> "proof", type |-> "ProofMod", proof |-> proof,
                          bytes |-> <<>>, back |-> Err("none")]
    /\ modint = Idle
    /\ paillier = Idle
    /\ safeprime = Idle
    /\ keygen = Idle
    /\ modproof = Idle
    /\ facproof = Idle
    /\ bobproof = Idle
    /\ dlnproof = Idle
    /\ paiproof = Idle
    /\ random = Idle
    /\ secrets = Idle
    /\ dlnwire = Idle
    /\ verifyany = Idle
    /\ ntildei = Idle
    /\ hashing = Idle
    /\ ecpoint = Idle
    /\ fanout = Idle

ProofWireSet(pc, bytes, back) ==
    /\ proofwire' = [proofwire EXCEPT !.pc = pc, !.bytes = bytes, !.back = back]
    /\ UNCHANGED <<modint, paillier, safeprime, keygen, modproof, facproof, bobproof, dlnproof, paiproof, random, secrets, dlnwire, verifyany, ntildei, hashing, ecpoint, fanout>>

ProofFacIntoBytes ==
    /\ proofwire.pc = "proof"
    /\ proofwire.type = "ProofFac"
    /\ ProofWireSet("bytes", ProofFac_into_bytes(proofwire.proof), proofwire.back)

ProofFacTryFrom ==
    /\ proofwire.pc = "bytes"
    /\ proofwire.type = "ProofFac"
    /\ ProofWireSet("back", proofwire.bytes, ProofFac_try_from(proofwire.bytes))

ProofModIntoBytes ==
    /\ proofwire.pc = "proof"
    /\ proofwire.type = "ProofMod"
    /\ ProofWireSet("bytes", ProofMod_into_bytes(proofwire.proof), proofwire.back)

ProofModTryFrom ==
    /\ proofwire.pc = "bytes"
    /\ proofwire.type = "ProofMod"
    /\ ProofWireSet("back", proofwire.bytes, ProofMod_try_from(proofwire.bytes))

NextProofWire ==
    \/ ProofFacIntoBytes
    \/ ProofFacTryFrom
    \/ ProofModIntoBytes
    \/ ProofModTryFrom

SpecProofWire == InitProofWire /\ [][NextProofWire]_vars

(* C19: for every ProofFac (ten non-negative integers and the signed v,    *)
(* zero and negative v included) and every ProofMod (w, the x_i, a, b, the *)
(* z_i), the array of byte strings has 11, resp. 2 * Iterations::SIZE + 3, *)
(* fields, and try_from of it returns a proof equal to the original.       *)
C19_BytesRoundTrip ==
    /\ proofwire.pc \in {"bytes", "back"} =>
          Len(proofwire.bytes) =
             (IF proofwire.type = "ProofFac" THEN ProofFac_SIZE ELSE ProofMod_SIZE)
    /\ proofwire.pc = "back" => proofwire.back = Ok(proofwire.proof)
    /\ (proofwire.pc = "bytes" /\ proofwire.type = "ProofMod") =>
          /\ from_bytes_be(proofwire.bytes[1]) = proofwire.proof.w
          /\ from_bytes_be(proofwire.bytes[Iterations_SIZE + 2]) = proofwire.proof.a
          /\ from_bytes_be(proofwire.bytes[Iterations_SIZE + 3]) = proofwire.proof.b
          /\ \A i \in 1..Iterations_SIZE :
                /\ from_bytes_be(proofwire.bytes[1 + i]) = proofwire.proof.x[i]
                /\ from_bytes_be(proofwire.bytes[Iterations_SIZE + 3 + i]) = proofwire.proof.z[i]

C19_Witness ==
    /\ proofwire.pc = "back"
    /\ proofwire.type = "ProofFac"
    /\ proofwire.proof.v = -128
    /\ proofwire.proof.p = 0
    /\ proofwire.bytes[11] = <<128>>
    /\ proofwire.back.ok

C19_WitnessNegativeExtended ==
    /\ proofwire.pc = "back"
    /\ proofwire.type = "ProofFac"
    /\ proofwire.proof.v = -129
    /\ proofwire.bytes[11] = <<255, 127>>
    /\ proofwire.back.ok

C19_WitnessZeroV ==
    /\ proofwire.pc = "back"
    /\ proofwire.type = "ProofFac"
    /\ proofwire.proof.v = 0
    /\ proofwire.bytes[11] = <<0>>
    /\ proofwire.back.ok

C19_WitnessProofMod ==
    /\ proofwire.pc = "back"
    /\ proofwire.type = "ProofMod"
    /\ proofwire.proof.w = 0
    /\ proofwire.proof.x[1] = 300
    /\ proofwire.proof.z[Iterations_SIZE] = 200
    /\ proofwire.back.ok

(***************************************************************************)
(* ProofMod::verify and ProofFac::verify on arbitrary proofs and public    *)
(* parameters, with the panics of the operations they call: the Jacobi     *)
(* symbol of an even modulus, a BigUint subtraction below zero,            *)
(* gen_biguint_below(0), and a reduction by a zero modulus.                *)
(***************************************************************************)
BoolOutcome(r) == IF r THEN "true" ELSE "false"

(* miller_rabin::is_prime panics in n - 1 for n = 0, in nm1 - 2 for n < 3  *)
(* and, with more than one base, in gen_biguint_below(nm3) for n = 3.      *)
miller_rabin_is_prime_panics(n, reps) ==
    \/ n < 1
    \/ n - 1 < 2
    \/ (reps > 1 /\ n - 3 = 0)

ProofMod_verify_outcomes(proof, session, n) ==
    IF n % 2 = 0 THEN {"panic"}
    ELSE IF \/ ProofMod_is_quadratic_residue(proof.w, n)
            \/ proof.w < n
            \/ \E i \in DOMAIN proof.z : proof.z[i] < n
            \/ \E i \in DOMAIN proof.x : proof.x[i] < n
            \/ bits(proof.a) # Iterations_SIZE + 1
            \/ bits(proof.b) # Iterations_SIZE + 1
         THEN {"false"}
    ELSE IF miller_rabin_is_prime_panics(n, 30) THEN {"panic"}
    ELSE {BoolOutcome(r) : r \in ProofMod_verify(proof, session, n)}

ProofFac_verify_outcome(proof, vp) ==
    LET q3_sqrt_n0 == pow(vp.curve_n, 3) * sqrt(vp.n0)
    IN  IF q3_sqrt_n0 <= proof.z1 \/ q3_sqrt_n0 <= proof.z2 THEN "false"
        ELSE IF vp.curve_n = 0 THEN "panic"
        ELSE IF vp.n_tildei.n = 0 THEN "panic"
        ELSE BoolOutcome(ProofFac_verify(proof, vp))

AnyModuli == {0, 1, 2, 3, 5, 9, 21}

AnyProofMods ==
    {[w |-> w, x |-> [i \in 1..Iterations_SIZE |-> x], a |-> a, b |-> a,
      z |-> [i \in 1..Iterations_SIZE |-> z]] :
        w \in {0, 1, 2, 4, 25}, x \in {0, 1, 30}, z \in {0, 1, 30},
        a \in {0, pow2(Iterations_SIZE), pow2(Iterations_SIZE + 1) - 1}}

AnyVerifyParams ==
    {[session |-> <<7>>, curve_n |-> cn, n0 |-> n0,
      n_tildei |-> [n |-> nt, v1 |-> 9, v2 |-> 4]] :
        cn \in {0, 1, 3}, n0 \in {0, 1, 15}, nt \in {0, 1, 35}}

AnyProofFacs ==
    {[p |-> u, q |-> 1, a |-> 1, b |-> u, t |-> 1, sigma |-> 0,
      z1 |-> z1, z2 |-> 0, w1 |-> 0, w2 |-> 0, v |-> v] :
        u \in {0, 1}, z1 \in {0, 1, 100}, v \in {-1, 0, 1}}

InitVerifyAny ==
    /\ \/ \E proof \in AnyProofMods, n \in AnyModuli :
             verifyany = [pc |-> "start", type |-> "ProofMod", proof |-> proof, n |-> n,
                          vp |-> Idle, outcome |-> "none"]
       \/ \E proof \in AnyProofFacs, vp \in AnyVerifyParams :
             verifyany = [pc |-> "start", type |-> "ProofFac", proof |-> proof, n |-> 0,
                          vp |-> vp, outcome |-> "none"]
    /\ modint = Idle
    /\ paillier = Idle
    /\ safeprime = Idle
    /\ keygen = Idle
    /\ modproof = Idle
    /\ facproof = Idle
    /\ bobproof = Idle
    /\ dlnproof = Idle
    /\ paiproof = Idle
    /\ random = Idle
    /\ secrets = Idle
    /\ dlnwire = Idle
    /\ proofwire = Idle
    /\ ntildei = Idle
    /\ hashing = Idle
    /\ ecpoint = Idle
    /\ fanout = Idle

VerifyAnyProofMod ==
    /\ verifyany.pc = "start"
    /\ verifyany.type = "ProofMod"
    /\ \E o \in ProofMod_verify_outcomes(verifyany.proof, <<7>>, verifyany.n) :
          verifyany' = [verifyany EXCEPT !.pc = "done", !.outcome = o]
    /\ UNCHANGED <<modint, paillier, safeprime, keygen, modproof, facproof, bobproof, dlnproof, paiproof, random, secrets, dlnwire, proofwire, ntildei, hashing, ecpoint, fanout>>

VerifyAnyProofFac ==
    /\ verifyany.pc = "start"
    /\ verifyany.type = "ProofFac"
    /\ verifyany' = [verifyany EXCEPT
           !.pc = "done",
           !.outcome = ProofFac_verify_outcome(verifyany.proof, verifyany.vp)]
    /\ UNCHANGED <<modint, paillier, safeprime, keygen, modproof, facproof, bobproof, dlnproof, paiproof, random, secrets, dlnwire, proofwire, ntildei, hashing, ecpoint, fanout>>

NextVerifyAny == VerifyAnyProofMod \/ VerifyAnyProofFac

SpecVerifyAny == InitVerifyAny /\ [][NextVerifyAny]_vars

(* C23: ProofMod::verify and ProofFac::verify return true or false for     *)
(* every proof and every public parameters, a modulus of 0, 1, 2 or 3 and  *)
(* a curve order of 0 included, and never panic.                           *)
C23_VerifyTotal ==
    verifyany.pc = "done" => verifyany.outcome \in {"true", "false"}

(* Where verify does panic: ProofMod::verify on every even n and, once the *)
(* checks on the proof's values pass, on n = 1 and n = 3; ProofFac::verify *)
(* on a modulus N~ = 0 once the range check passes.                        *)
C23_VerifyPanics ==
    (verifyany.pc = "done" /\ verifyany.outcome = "panic") =>
        IF verifyany.type = "ProofMod"
        THEN verifyany.n % 2 = 0 \/ verifyany.n \in {1, 3}
        ELSE verifyany.vp.n_tildei.n = 0 /\ verifyany.vp.curve_n > 0

C23_WitnessPanicThree ==
    /\ verifyany.pc = "done"
    /\ verifyany.type = "ProofMod"
    /\ verifyany.n = 3
    /\ verifyany.outcome = "panic"

C23_WitnessPanicFac ==
    /\ verifyany.pc = "done"
    /\ verifyany.type = "ProofFac"
    /\ verifyany.outcome = "panic"

C23_WitnessReturns ==
    /\ verifyany.pc = "done"
    /\ verifyany.type = "ProofMod"
    /\ verifyany.n = 21
    /\ verifyany.proof.w = 25
    /\ verifyany.proof.x[1] = 30
    /\ verifyany.outcome = "false"

(***************************************************************************)
(* crypto::utils::NTildei::generate and                                    *)
(* common::random::get_random_generator_of_the_quadratic_residue.          *)
(***************************************************************************)
(* f.sqrt() % modulus over the units f the sampler can return. *)
get_random_generator_of_the_quadratic_residue(modulus) ==
    {sqrt(f) % modulus : f \in get_random_positive_relatively_prime_int(modulus)}

(* NTildei::generate given the two results of is_prime and the two         *)
(* generators drawn.                                                       *)
NTildei_generate(prime1, prime2, is_prime1, is_prime2, v1, v2) ==
    IF ~is_prime1 \/ ~is_prime2 THEN Err("need_primes")
    ELSE Ok([n |-> prime1 * prime2, v1 |-> v1, v2 |-> v2])

NTildeiInputs == {5, 7, 9, 11, 13, 15}

InitNTildei ==
    /\ \E prime1 \in NTildeiInputs, prime2 \in NTildeiInputs :
          ntildei = [pc |-> "start", prime1 |-> prime1, prime2 |-> prime2,
                     is_prime1 |-> FALSE, is_prime2 |-> FALSE, res |-> Err("none")]
    /\ modint = Idle
    /\ paillier = Idle
    /\ safeprime = Idle
    /\ keygen = Idle
    /\ modproof = Idle
    /\ facproof = Idle
    /\ bobproof = Idle
    /\ dlnproof = Idle
    /\ paiproof = Idle
    /\ random = Idle
    /\ secrets = Idle
    /\ dlnwire = Idle
    /\ proofwire = Idle
    /\ verifyany = Idle
    /\ hashing = Idle
    /\ ecpoint = Idle
    /\ fanout = Idle

NTildeiGenerate ==
    /\ ntildei.pc = "start"
    /\ \E is_prime1 \in miller_rabin_is_prime(ntildei.prime1, 30),
          is_prime2 \in miller_rabin_is_prime(ntildei.prime2, 30) :
          LET gens == get_random_generator_of_the_quadratic_residue(
                          ntildei.prime1 * ntildei.prime2)
          IN  \E v1 \in gens, v2 \in gens :
                 ntildei' = [ntildei EXCEPT
                     !.pc = "done", !.is_prime1 = is_prime1, !.is_prime2 = is_prime2,
                     !.res = NTildei_generate(ntildei.prime1, ntildei.prime2,
                                              is_prime1, is_prime2, v1, v2)]
    /\ UNCHANGED <<modint, paillier, safeprime, keygen, modproof, facproof, bobproof, dlnproof, paiproof, random, secrets, dlnwire, proofwire, verifyany, hashing, ecpoint, fanout>>

NextNTildei == NTildeiGenerate

SpecNTildei == InitNTildei /\ [][NextNTildei]_vars

(* v is coprime to n and the square modulo n of a unit. *)
IsUnitSquare(v, n) ==
    /\ CoprimeRef(v, n)
    /\ \E f \in 1..(n - 1) : CoprimeRef(f, n) /\ (f * f) % n = v

(* C24: NTildei::generate returns the need-primes error unless both inputs *)
(* pass the primality test; when it succeeds n = p1*p2 and v1 and v2 are   *)
(* each coprime to n and the square modulo n of a unit.                    *)
C24_GenerateQuadraticResidues ==
    ntildei.pc = "done" =>
        IF ntildei.is_prime1 /\ ntildei.is_prime2
        THEN /\ ntildei.res.ok
             /\ ntildei.res.val.n = ntildei.prime1 * ntildei.prime2
             /\ IsUnitSquare(ntildei.res.val.v1, ntildei.res.val.n)
             /\ IsUnitSquare(ntildei.res.val.v2, ntildei.res.val.n)
        ELSE ntildei.res = Err("need_primes")

(* What generate returns: v1 and v2 are integer square roots of units of   *)
(* n, reduced modulo n.                                                    *)
IsUnitRoot(v, n) ==
    \E f \in 1..(n - 1) : CoprimeRef(f, n) /\ v * v <= f /\ f < (v + 1) * (v + 1)

C24_GenerateIntegerRoots ==
    ntildei.pc = "done" =>
        IF ntildei.is_prime1 /\ ntildei.is_prime2
        THEN /\ ntildei.res.ok
             /\ ntildei.res.val.n = ntildei.prime1 * ntildei.prime2
             /\ IsUnitRoot(ntildei.res.val.v1, ntildei.res.val.n)
             /\ IsUnitRoot(ntildei.res.val.v2, ntildei.res.val.n)
        ELSE ntildei.res = Err("need_primes")

C24_WitnessNotCoprime ==
    /\ ntildei.pc = "done"
    /\ ntildei.prime1 = 7
    /\ ntildei.prime2 = 11
    /\ ntildei.res.ok
    /\ ntildei.res.val.v1 = 7

C24_WitnessNeedPrimes ==
    /\ ntildei.pc = "done"
    /\ ntildei.prime2 = 15
    /\ ntildei.res = Err("need_primes")

(***************************************************************************)
(* crypto::hash: the bytes sha512_256i gives to the hasher, and            *)
(* rejection_sample of the digest.                                         *)
(***************************************************************************)
HashTags == {NoTag, SomeTag(<<>>), SomeTag(<<7>>), SomeTag(<<1, 2>>)}

HashIntegers == {0, 1, 255, 256, 70000}

MaxHashInputs == 3

HashLists == UNION {[1..n -> HashIntegers] : n \in 0..MaxHashInputs}

HashModuli == {1, 2, 7, 300}

InitHashing ==
    /\ \E tag \in HashTags, src_list \in HashLists, q \in HashModuli :
          hashing = [pc |-> "start", tag |-> tag, src_list |-> src_list, q |-> q,
                     stream |-> <<>>, digest |-> <<>>, sample |-> 0]
    /\ modint = Idle
    /\ paillier = Idle
    /\ safeprime = Idle
    /\ keygen = Idle
    /\ modproof = Idle
    /\ facproof = Idle
    /\ bobproof = Idle
    /\ dlnproof = Idle
    /\ paiproof = Idle
    /\ random = Idle
    /\ secrets = Idle
    /\ dlnwire = Idle
    /\ proofwire = Idle
    /\ verifyany = Idle
    /\ ntildei = Idle
    /\ ecpoint = Idle
    /\ fanout = Idle

(* sha512_256i(tag, src_list) with the bytes it hashed, then               *)
(* rejection_sample(q, digest).                                            *)
HashingSample ==
    /\ hashing.pc = "start"
    /\ LET bs_list == [i \in DOMAIN hashing.src_list |->
                          IF hashing.src_list[i] = 0 THEN <<>>
                          ELSE to_bytes_be(hashing.src_list[i])]
           digest == sha512_256i(hashing.tag, hashing.src_list)
       IN  hashing' = [hashing EXCEPT
               !.pc = "done",
               !.stream = sha512_256_stream(hashing.tag, bs_list),
               !.digest = digest,
               !.sample = rejection_sample(hashing.q, digest)]
    /\ UNCHANGED <<modint, paillier, safeprime, keygen, modproof, facproof, bobproof, dlnproof, paiproof, random, secrets, dlnwire, proofwire, verifyany, ntildei, ecpoint, fanout>>

NextHashing == HashingSample

SpecHashing == InitHashing /\ [][NextHashing]_vars

(* The 8 bytes of a count below 2^24, least significant first. *)
LittleEndian8Ref(n) ==
    [i \in 1..8 |-> IF i <= 3 THEN (n \div pow(256, i - 1)) % 256 ELSE 0]

(* The big-endian magnitude of x: no byte for zero, else the k bytes with  *)
(* 256^(k-1) <= x < 256^k.                                                 *)
MagnitudeRef(x) ==
    IF x = 0 THEN <<>>
    ELSE LET k == CHOOSE j \in 1..3 : pow(256, j - 1) <= x /\ x < pow(256, j)
         IN  [i \in 1..k |-> (x \div pow(256, k - i)) % 256]

RECURSIVE HashItemsRef(_)
HashItemsRef(items) ==
    IF items = <<>> THEN <<>>
    ELSE Head(items) \o <<36>> \o LittleEndian8Ref(Len(Head(items)))
         \o HashItemsRef(Tail(items))

DigestRef(stream) == Sha512_256_finalize(Sha512_256_update(stream))

HashStreamRef(tag, src_list) ==
    LET hashed_tag == DigestRef(LittleEndian8Ref(1) \o HashItemsRef(<<tag.bytes>>))
        items == [i \in DOMAIN src_list |-> MagnitudeRef(src_list[i])]
    IN  (IF tag.some THEN hashed_tag \o hashed_tag ELSE <<>>)
        \o LittleEndian8Ref(Len(src_list)) \o HashItemsRef(items)

RECURSIVE BigEndianValueRef(_)
BigEndianValueRef(bs) ==
    IF bs = <<>> THEN 0
    ELSE BigEndianValueRef(SubSeq(bs, 1, Len(bs) - 1)) * 256 + bs[Len(bs)]

(* C25: the bytes hashed by sha512_256i are, when a tag is present, H(tag) *)
(* twice (the untagged hash of the one-element list [tag]), then the       *)
(* 8-byte little-endian count of inputs, then for each integer its         *)
(* big-endian magnitude (empty for zero), one '$' byte and the 8-byte      *)
(* little-endian length of the magnitude; rejection_sample(q, digest) is   *)
(* the digest read as a big-endian integer reduced mod q, in [0, q).       *)
C25_HashStream ==
    hashing.pc = "done" =>
        /\ hashing.stream = HashStreamRef(hashing.tag, hashing.src_list)
        /\ hashing.digest = DigestRef(hashing.stream)
        /\ hashing.sample = BigEndianValueRef(hashing.digest) % hashing.q
        /\ hashing.sample >= 0
        /\ hashing.sample < hashing.q

C25_Witness ==
    /\ hashing.pc = "done"
    /\ hashing.tag = SomeTag(<<1, 2>>)
    /\ hashing.src_list = <<0, 70000, 256>>
    /\ hashing.q = 7
    /\ BigEndianValueRef(hashing.digest) >= 7
    /\ Len(hashing.stream) = 2 * Hash256_LEN + 8 + 9 + 12 + 11

C25_WitnessUntagged ==
    /\ hashing.pc = "done"
    /\ hashing.tag = NoTag
    /\ hashing.src_list = <<>>
    /\ hashing.stream = <<0, 0, 0, 0, 0, 0, 0, 0>>

(***************************************************************************)
(* crypto::utils::ecdsa: xy_point, the inverse of point_xy.                *)
(***************************************************************************)
(* AffinePoint::from_encoded_point: the point of the coordinates when they *)
(* are field elements that satisfy the curve equation.                     *)
from_encoded_point(x, y) ==
    IF /\ x < Curve.p
       /\ y < Curve.p
       /\ (y * y) % Curve.p = (x * x * x + Curve.b) % Curve.p
    THEN SomePoint([inf |-> FALSE, x |-> x, y |-> y])
    ELSE NonePoint

(* xy_point reduces both coordinates modulo the order of the curve before  *)
(* it looks at them.                                                       *)
xy_point(x, y) ==
    LET n == curve_n
        x_ == x % n
        y_ == y % n
    IN  IF x_ = 0 /\ y_ = 0 THEN SomePoint(identity)
        ELSE from_encoded_point(x_, y_)

(* The points of the curve: the point at infinity and the solutions of the *)
(* curve equation.                                                         *)
CurvePoints ==
    {identity} \cup
    {point \in [inf : {FALSE}, x : 0..(Curve.p - 1), y : 0..(Curve.p - 1)] :
        (point.y * point.y) % Curve.p =
        (point.x * point.x * point.x + Curve.b) % Curve.p}

InitEcPoint ==
    /\ \/ \E point \in CurvePoints :
             ecpoint = [pc |-> "point", origin |-> "point", point |-> point,
                        x |-> 0, y |-> 0, back |-> NonePoint]
       \/ \E x \in 0..(Curve.p + 1), y \in 0..(Curve.p + 1) :
             ecpoint = [pc |-> "xy", origin |-> "xy", point |-> identity,
                        x |-> x, y |-> y, back |-> NonePoint]
    /\ modint = Idle
    /\ paillier = Idle
    /\ safeprime = Idle
    /\ keygen = Idle
    /\ modproof = Idle
    /\ facproof = Idle
    /\ bobproof = Idle
    /\ dlnproof = Idle
    /\ paiproof = Idle
    /\ random = Idle
    /\ secrets = Idle
    /\ dlnwire = Idle
    /\ proofwire = Idle
    /\ verifyany = Idle
    /\ ntildei = Idle
    /\ hashing = Idle
    /\ fanout = Idle

EcPointXy ==
    /\ ecpoint.pc = "point"
    /\ LET xy == point_xy(ecpoint.point)
       IN  ecpoint' = [ecpoint EXCEPT !.pc = "xy", !.x = xy[1], !.y = xy[2]]
    /\ UNCHANGED <<modint, paillier, safeprime, keygen, modproof, facproof, bobproof, dlnproof, paiproof, random, secrets, dlnwire, proofwire, verifyany, ntildei, hashing, fanout>>

EcXyPoint ==
    /\ ecpoint.pc = "xy"
    /\ ecpoint' = [ecpoint EXCEPT !.pc = "back", !.back = xy_point(ecpoint.x, ecpoint.y)]
    /\ UNCHANGED <<modint, paillier, safeprime, keygen, modproof, facproof, bobproof, dlnproof, paiproof, random, secrets, dlnwire, proofwire, verifyany, ntildei, hashing, fanout>>

NextEcPoint == EcPointXy \/ EcXyPoint

SpecEcPoint == InitEcPoint /\ [][NextEcPoint]_vars

(* C26: for every point P of the curve xy_point(point_xy(P)) = Some(P):    *)
(* the point at infinity goes to (0, 0) and back, and every other point to *)
(* its coordinates and back, for every coordinate of the field, those at   *)
(* or above the order of the curve included.                               *)
C26_PointRoundTrip ==
    (ecpoint.pc = "back" /\ ecpoint.origin = "point") =>
        ecpoint.back = SomePoint(ecpoint.point)

(* The round trip for the points whose coordinates are both below the      *)
(* order of the curve, and what xy_point returns for the others.           *)
C26_PointRoundTripBelowOrder ==
    (ecpoint.pc = "back" /\ ecpoint.origin = "point") =>
        IF ecpoint.point.inf \/ (ecpoint.point.x < curve_n /\ ecpoint.point.y < curve_n)
        THEN ecpoint.back = SomePoint(ecpoint.point)
        ELSE ecpoint.back # SomePoint(ecpoint.point)

C26_WitnessAtOrder ==
    /\ ecpoint.pc = "back"
    /\ ecpoint.origin = "point"
    /\ ecpoint.point = Curve.g
    /\ ecpoint.back = NonePoint

C26_WitnessInfinity ==
    /\ ecpoint.pc = "back"
    /\ ecpoint.origin = "point"
    /\ ecpoint.point.inf
    /\ ecpoint.x = 0
    /\ ecpoint.back = SomePoint(identity)
(***************************************************************************)
(* The parallel all() of ProofMod::verify, of prime.rs                     *)
(* miller_rabin::is_prime and of miller_rabin.rs                           *)
(* probably_prime_miller_rabin: the checks are evaluated one at a time, in *)
(* any order, and all() may return as soon as one of them failed.          *)
(***************************************************************************)
par_all_any(results) == \E i \in DOMAIN results : results[i] = "pass"

(* ParallelIterator::all over the results found so far: false when one of  *)
(* them failed, true when none did.                                        *)
par_all(results) == \A i \in DOMAIN results : results[i] # "fail"

(* The bases collected before par_iter: reps - 1 values of                 *)
(* gen_biguint_below(n - 3) + 2, then 2.                                   *)
miller_rabin_samples(n, reps) ==
    {[i \in 1..reps |-> IF i = reps THEN 2 ELSE a[i] + 2] :
        a \in [1..(reps - 1) -> 0..(n - 4)]}

(* The guards of ProofMod::verify before the fan-out: whether it goes on   *)
(* to the checks, over the results of is_prime(n, Some(30)).               *)
ProofMod_verify_reaches_checks(proof, n) ==
    IF ProofMod_is_quadratic_residue(proof.w, n) THEN {FALSE}
    ELSE IF proof.w < n THEN {FALSE}
    ELSE IF \E i \in DOMAIN proof.z : proof.z[i] < n THEN {FALSE}
    ELSE IF \E i \in DOMAIN proof.x : proof.x[i] < n THEN {FALSE}
    ELSE IF bits(proof.a) # Iterations_SIZE + 1 THEN {FALSE}
    ELSE IF bits(proof.b) # Iterations_SIZE + 1 THEN {FALSE}
    ELSE IF ~bit(n, 0) THEN {FALSE}
    ELSE {~prime : prime \in miller_rabin_is_prime(n, 30)}

(* miller_rabin.rs is_prime before probably_prime_miller_rabin: the answer *)
(* of the bit mask and of the small divisors, or none.                     *)
is_prime_before_rounds(x) ==
    IF bits(x) <= 6 THEN [some |-> TRUE, val |-> x \in PRIMES_AS_BIT_MASK]
    ELSE IF x % 2 = 0 THEN [some |-> TRUE, val |-> FALSE]
    ELSE IF \/ \E m \in PRIMES_A_MEMBERS : x % m = 0
            \/ \E m \in PRIMES_B_MEMBERS : x % m = 0
         THEN [some |-> TRUE, val |-> FALSE]
         ELSE [some |-> FALSE, val |-> FALSE]

MaxReps == 3

FanOutPrimes == {5, 7, 9, 11, 13, 15, 17}

FanOutIsPrimeArgs == (0..67) \cup {71}

FanOutModulus == 3 * 11

(* For the index with value yi: bits and a root x with x^4 = the selected  *)
(* value, when there is one, and the root z with z^n = yi.                 *)
FanOutRoots(n, w, yi) ==
    LET cands == {c \in [a : BOOLEAN, b : BOOLEAN, x : 0..(n - 1)] :
                     modpow(c.x, 4, n) =
                        (LET y1 == IF c.a THEN (n - yi) % n ELSE yi
                         IN  IF c.b THEN (w * y1) % n ELSE y1)}
        zs == {z \in 0..(n - 1) : modpow(z, n, n) = yi}
    IN  [c |-> IF cands = {} THEN [a |-> FALSE, b |-> FALSE, x |-> 0]
               ELSE CHOOSE c \in cands : TRUE,
         z |-> IF zs = {} THEN 0 ELSE CHOOSE z \in zs : TRUE]

(* Proofs for n with every value at or above n: the roots of each index,   *)
(* those of the indexes of wrong moved by one.                             *)
FanOutProof(session, n, w, wrong) ==
    LET y == ProofMod_mk_ys(session, n, w)
        r == [i \in 1..Iterations_SIZE |-> FanOutRoots(n, w % n, y[i])]
    IN  [ok |-> TRUE, w |-> w,
         x |-> [i \in 1..Iterations_SIZE |->
                   n + r[i].c.x + (IF i \in wrong THEN 1 ELSE 0)],
         a |-> ProofMod_set_bits(pow2(Iterations_SIZE),
                                 [i \in 1..Iterations_SIZE |->
                                     [found |-> TRUE, on |-> r[i].c.a]], 1),
         b |-> ProofMod_set_bits(pow2(Iterations_SIZE),
                                 [i \in 1..Iterations_SIZE |->
                                     [found |-> TRUE, on |-> r[i].c.b]], 1),
         z |-> [i \in 1..Iterations_SIZE |-> n + r[i].z]]

FanOutProofs ==
    {FanOutProof(s, FanOutModulus, w, wrong) :
        s \in Sessions, w \in {FanOutModulus + 1, FanOutModulus + 4, 2},
        wrong \in SUBSET (1..Iterations_SIZE)}

FanOutStart(kind, n, reps, session, proof) ==
    [pc |-> "start", kind |-> kind, n |-> n, reps |-> reps, samples |-> <<>>,
     session |-> session, proof |-> proof, y |-> <<>>, results |-> <<>>,
     out |-> FALSE]

InitFanOut ==
    /\ fanout \in
          {FanOutStart("prime_rs", n, reps, <<>>, NoProofMod) :
              n \in FanOutPrimes, reps \in 1..MaxReps}
          \cup {FanOutStart("miller_rabin_rs", n, reps, <<>>, NoProofMod) :
              n \in FanOutIsPrimeArgs, reps \in 1..2}
          \cup {FanOutStart("proof_mod", FanOutModulus, 0, s, proof) :
              s \in Sessions, proof \in FanOutProofs}
    /\ modint = Idle
    /\ paillier = Idle
    /\ safeprime = Idle
    /\ keygen = Idle
    /\ modproof = Idle
    /\ facproof = Idle
    /\ bobproof = Idle
    /\ dlnproof = Idle
    /\ paiproof = Idle
    /\ random = Idle
    /\ secrets = Idle
    /\ dlnwire = Idle
    /\ proofwire = Idle
    /\ verifyany = Idle
    /\ ntildei = Idle
    /\ hashing = Idle
    /\ ecpoint = Idle

Pending(count) == [i \in 1..count |-> "pending"]

(* The sequential part before all(): the guards and the values the checks  *)
(* read.                                                                   *)
FanOutBegin ==
    /\ fanout.pc = "start"
    /\ \/ /\ fanout.kind = "prime_rs"
          /\ \E samples \in miller_rabin_samples(fanout.n, fanout.reps) :
                fanout' = [fanout EXCEPT !.pc = "running", !.samples = samples,
                                         !.results = Pending(fanout.reps)]
       \/ /\ fanout.kind = "miller_rabin_rs"
          /\ LET before == is_prime_before_rounds(fanout.n)
             IN  IF before.some
                 THEN fanout' = [fanout EXCEPT !.pc = "done", !.out = before.val]
                 ELSE \E samples \in miller_rabin_samples(fanout.n, fanout.reps) :
                         fanout' = [fanout EXCEPT !.pc = "running",
                                                  !.samples = samples,
                                                  !.results = Pending(fanout.reps)]
       \/ /\ fanout.kind = "proof_mod"
          /\ \E reaches \in ProofMod_verify_reaches_checks(fanout.proof, fanout.n) :
                IF reaches
                THEN fanout' = [fanout EXCEPT
                        !.pc = "running",
                        !.y = ProofMod_mk_ys(fanout.session, fanout.n, fanout.proof.w),
                        !.results = Pending(Iterations_SIZE)]
                ELSE fanout' = [fanout EXCEPT !.pc = "done", !.out = FALSE]
    /\ UNCHANGED <<modint, paillier, safeprime, keygen, modproof, facproof, bobproof, dlnproof, paiproof, random, secrets, dlnwire, proofwire, verifyany, ntildei, hashing, ecpoint>>

(* The closure given to all(), for the item i.                             *)
FanOutClosure(f, i) ==
    IF f.kind = "proof_mod" THEN ProofMod_verify_index(f.proof, f.n, f.y, i)
    ELSE miller_rabin_base(f.n, f.samples[i])

(* A worker evaluates one of the items not evaluated yet. *)
FanOutCheck ==
    /\ fanout.pc = "running"
    /\ \E i \in DOMAIN fanout.results :
          /\ fanout.results[i] = "pending"
          /\ fanout' = [fanout EXCEPT !.results[i] =
                            IF FanOutClosure(fanout, i) THEN "pass" ELSE "fail"]
    /\ UNCHANGED <<modint, paillier, safeprime, keygen, modproof, facproof, bobproof, dlnproof, paiproof, random, secrets, dlnwire, proofwire, verifyany, ntildei, hashing, ecpoint>>

(* all() returns: when every item was evaluated, or earlier when one of    *)
(* them failed.                                                            *)
FanOutReturn ==
    /\ fanout.pc = "running"
    /\ \/ \A i \in DOMAIN fanout.results : fanout.results[i] # "pending"
       \/ \E i \in DOMAIN fanout.results : fanout.results[i] = "fail"
    /\ fanout' = [fanout EXCEPT !.pc = "done", !.out = par_all(fanout.results)]
    /\ UNCHANGED <<modint, paillier, safeprime, keygen, modproof, facproof, bobproof, dlnproof, paiproof, random, secrets, dlnwire, proofwire, verifyany, ntildei, hashing, ecpoint>>

NextFanOut == FanOutBegin \/ FanOutCheck \/ FanOutReturn

SpecFanOut == InitFanOut /\ [][NextFanOut]_vars

(* C28: the result of a verification that fans out over independent       *)
(* checks (the per-repetition checks of ProofMod::verify, the per-base     *)
(* rounds of is_prime) is the logical AND of all the individual checks:    *)
(* true only if every check passes, false as soon as one fails, the same   *)
(* for every order in which the checks are evaluated.                      *)
C28_FanOutIsConjunction ==
    /\ (fanout.pc = "done" /\ DOMAIN fanout.results # {}) =>
          fanout.out = (\A i \in DOMAIN fanout.results : FanOutClosure(fanout, i))
    /\ (fanout.pc = "running"
          /\ \E i \in DOMAIN fanout.results : fanout.results[i] = "fail") =>
          ~par_all(fanout.results)

C28_WitnessAllPass ==
    /\ fanout.pc = "done"
    /\ fanout.kind = "prime_rs"
    /\ Len(fanout.results) = MaxReps
    /\ fanout.out

C28_WitnessEarlyReturn ==
    /\ fanout.pc = "done"
    /\ fanout.kind = "prime_rs"
    /\ \E i, j, k \in DOMAIN fanout.results :
          /\ fanout.results[i] = "pending"
          /\ fanout.results[j] = "pass"
          /\ fanout.results[k] = "fail"
    /\ ~fanout.out

C28_WitnessProofModPass ==
    /\ fanout.pc = "done"
    /\ fanout.kind = "proof_mod"
    /\ DOMAIN fanout.results # {}
    /\ fanout.out

C28_WitnessProofModMixed ==
    /\ fanout.pc = "done"
    /\ fanout.kind = "proof_mod"
    /\ \E i, j \in DOMAIN fanout.results :
          fanout.results[i] = "pass" /\ fanout.results[j] = "fail"
    /\ ~fanout.out

C28_WitnessRounds ==
    /\ fanout.pc = "done"
    /\ fanout.kind = "miller_rabin_rs"
    /\ Len(fanout.results) = 2

IsPrimeRef(n) == n > 1 /\ \A d \in 2..(n - 1) : n % d # 0

(* C29: the Miller-Rabin test never rejects a prime: for every prime       *)
(* n > 3, every reps >= 1 and every choice of the random bases of          *)
(* [2, n - 2] (the last base being 2) is_prime(n, reps) of prime.rs        *)
(* returns true; and for n < 64 is_prime of miller_rabin.rs returns true   *)
(* exactly for the primes below 64.                                        *)
C29_NeverRejectsPrime ==
    /\ (fanout.pc = "done" /\ fanout.kind = "prime_rs"
          /\ fanout.n > 3 /\ IsPrimeRef(fanout.n)) => fanout.out
    /\ (fanout.pc = "done" /\ fanout.kind = "miller_rabin_rs" /\ fanout.n < 64) =>
          fanout.out = IsPrimeRef(fanout.n)

(* What the rounds return: the table of miller_rabin.rs is right below 64, *)
(* and is_prime of prime.rs accepts the primes n with n % 4 = 3 and        *)
(* rejects the primes with n % 4 = 1, whose rounds go through y.sqrt().    *)
C29_RejectsPrimesOneModFour ==
    /\ (fanout.pc = "done" /\ fanout.kind = "prime_rs" /\ IsPrimeRef(fanout.n)) =>
          fanout.out = (fanout.n % 4 = 3)
    /\ (fanout.pc = "done" /\ fanout.kind = "miller_rabin_rs" /\ fanout.n < 64) =>
          fanout.out = IsPrimeRef(fanout.n)

C29_WitnessRejectedFive ==
    /\ fanout.pc = "done"
    /\ fanout.kind = "prime_rs"
    /\ fanout.n = 5
    /\ fanout.samples = <<2>>
    /\ ~fanout.out

C29_WitnessTable ==
    /\ fanout.pc = "done"
    /\ fanout.kind = "miller_rabin_rs"
    /\ fanout.n = 61
    /\ fanout.out

(***************************************************************************)
(* common::random: the resampling loops under fair sampling.  The draws    *)
(* are not bounded here: the count of draws stops at MaxSamples, and turn  *)
(* changes at every draw.                                                  *)
(***************************************************************************)
(* The loop condition of the function that is running. *)
RandomLoopCondition ==
    IF random.fn = "get_random_positive_relatively_prime_int"
    THEN relatively_prime_resamples(random.modulus, random.r)
    ELSE non_residue_resamples(random.modulus, random.r)

(* One turn of either loop in which get_random_positive_int(modulus)       *)
(* returns v.                                                              *)
RandomDraw(v) ==
    /\ random.pc = "loop"
    /\ RandomLoopCondition
    /\ check_bits_range(bits(random.modulus))
    /\ v \in get_random_positive_int(random.modulus)
    /\ random' = [random EXCEPT !.r = v, !.turn = ~@,
                     !.samples = IF @ < MaxSamples THEN @ + 1 ELSE @]
    /\ UNCHANGED <<modint, paillier, safeprime, keygen, modproof, facproof, bobproof, dlnproof, paiproof, secrets, dlnwire, proofwire, verifyany, ntildei, hashing, ecpoint, fanout>>

NextRandomFair ==
    \/ RandomGetRandomInt
    \/ RandomGetRandomPositiveInt
    \/ RandomRelativelyPrimeCall
    \/ RandomRelativelyPrimeReturn
    \/ RandomNonResidueCall
    \/ RandomNonResidueReturn
    \/ \E v \in 0..MaxRandomModulus : RandomDraw(v)

(* Fair sampling: a value that can be drawn again and again is drawn, and  *)
(* the function goes on to its return.                                     *)
SpecRandomFair ==
    /\ InitRandom
    /\ [][NextRandomFair]_vars
    /\ WF_vars(RandomRelativelyPrimeCall \/ RandomNonResidueCall)
    /\ WF_vars(RandomRelativelyPrimeReturn \/ RandomNonResidueReturn)
    /\ \A v \in 0..MaxRandomModulus : SF_vars(RandomDraw(v))

(* C30: the resampling loops terminate on every argument they accept:      *)
(* under fair sampling get_random_positive_relatively_prime_int(modulus)   *)
(* eventually returns for every modulus >= 1, and                          *)
(* get_random_quadratic_non_residue(modulus) eventually returns for every  *)
(* odd modulus; neither loop spins forever on an accepted argument.        *)
C30_LoopsTerminate == (random.pc = "loop") ~> (random.pc = "done")

(* The loops return, under fair sampling, exactly on the moduli that have  *)
(* a value the loop condition lets through.                                *)
RandomHasAcceptedValue ==
    \E v \in 1..(random.modulus - 1) :
        IF random.fn = "get_random_positive_relatively_prime_int"
        THEN ~relatively_prime_resamples(random.modulus, v)
        ELSE ~non_residue_resamples(random.modulus, v)

C30_LoopsTerminateWithAcceptedValue ==
    (random.pc = "loop" /\ RandomHasAcceptedValue) ~> (random.pc = "done")

C30_LoopsSpinWithoutAcceptedValue ==
    (random.pc = "loop" /\ ~RandomHasAcceptedValue) => RandomLoopCondition

C30_WitnessSpinsOnOne ==
    /\ random.pc = "loop"
    /\ random.modulus = 1
    /\ random.samples = MaxSamples

C30_WitnessSpinsOnSquare ==
    /\ random.pc = "loop"
    /\ random.fn = "get_random_quadratic_non_residue"
    /\ random.modulus = 9
    /\ random.samples = MaxSamples
=============================================================================
